---------------------------- MODULE Spec2Model ----------------------------
(***************************************************************************)
(* Borromean risk engine (risk_calculator.py) and Local-Lore scorer        *)
(* (ai_agents/lore_calculator.py) as state machines.                       *)
(*                                                                         *)
(* Numbers.  Every score is a fixed-point integer with four decimals:      *)
(* 1.0 is SCALE = 10000.  A product of two scores is floored back to four  *)
(* decimals (Mul).  Means, percentiles and variance ratios are exact       *)
(* rationals, kept as records [num, den] meaning num / (den * SCALE) for   *)
(* scores and num / den for ratios.  IEEE rounding is not modelled.        *)
(***************************************************************************)
EXTENDS Integers, Sequences, FiniteSets, TLC

VARIABLES
    bcalls,         \* the borromean_score calls made: arguments and returned pair
    rng,            \* state of the process-wide generator behind np.random.normal
    pc,             \* position of the running call of the risk engine
    op,             \* the entry point that was called
    args,           \* calculate_risk's arguments
    H, L, V,        \* nominal factor scores
    config,         \* the RiskConfig in use
    R, gate_passed, \* borromean_score(H, L, V, config) of the nominal scores
    n_samples, sigma, correlation,   \* mc_uncertainty's remaining arguments
    i,              \* mc_uncertainty's loop counter
    R_samples, R_samples_H_only, R_samples_L_only, R_samples_V_only,
    branches,       \* per finished iteration: the noise branch taken and its noise
    uncertainty,    \* what mc_uncertainty returned
    result,         \* what calculate_risk returned
    weights_arg,    \* the weights argument the calculator was constructed with
    weights,        \* LoreScoreCalculator.weights
    lore,           \* the LocalLoreExtraction record being scored
    lscore,         \* outcome of the last calculate_l_score
    lore_ret,       \* outcome of the last update_lore_with_scores
    seed,           \* history: the generator state calculate_risk started from
    calls,          \* history: the finished calculate_risk calls
    lcalls,         \* history: the finished calculate_l_score calls
    other,          \* frame of a second calculate_risk invocation in the process
    scalls,         \* the component-scorer calls made: arguments and returned score
    request,        \* the RiskCalculationRequest the endpoint was called with
    response        \* the HTTP response of calculate_risk_endpoint

bvars == <<bcalls>>
mcvars == <<n_samples, sigma, correlation, i, R_samples, R_samples_H_only,
            R_samples_L_only, R_samples_V_only, branches, uncertainty>>
riskvars == <<rng, pc, op, args, H, L, V, config, R, gate_passed, result>>
lorevars == <<weights_arg, weights, lore, lscore, lore_ret>>
auxvars == <<seed, calls, lcalls, other, scalls>>
apivars == <<request, response>>
vars == <<bvars, riskvars, mcvars, lorevars, auxvars, apivars>>

---------------------------------------------------------------------------
(* Bounds of the model *)

\* Largest n_samples explored; calculate_risk's n_samples=300 is scaled to it.
MaxSamples == 6
\* Number of states of the pseudo-random generator (its period).
RngMod == 16

---------------------------------------------------------------------------
(* Fixed-point arithmetic *)

\* 1.0 in fixed point: four decimals
SCALE == 100 * 100

\* Python's None, for an optional argument: the empty tuple; a given value x
\* of a record type is passed as <<x>>.
None == <<>>

\* A rational [num, den]; float('nan') is 0/0.
NaN == [num |-> 0, den |-> 0]
IsNaN(r) == r.den = 0

\* Outcomes of a call: nothing yet, a raised exception; a returned value
\* carries status "returned".
NotCalled == [status |-> "none"]
Raised(exception) == [status |-> "raised", exception |-> exception]

Mul(a, b) == (a * b) \div SCALE

Min2(a, b) == IF a <= b THEN a ELSE b
Max2(a, b) == IF a >= b THEN a ELSE b

\* np.clip(x, lo, hi)
Clip(x, lo, hi) == Min2(Max2(x, lo), hi)

\* x ** a for a whole exponent a >= 0 (x ** 0 = 1.0, also for x = 0)
RECURSIVE Pow(_, _)
Pow(x, a) == IF a = 0 THEN SCALE ELSE Mul(x, Pow(x, a - 1))

RECURSIVE SqrtIter(_, _)
SqrtIter(n, x) ==
    LET y == (x + n \div x) \div 2
    IN  IF y >= x THEN x ELSE SqrtIter(n, y)

\* floor of the square root of n >= 0
ISqrt(n) == IF n <= 0 THEN 0 ELSE SqrtIter(n, n)

\* floor(a * SCALE / c) for 0 <= a, 0 < c, without leaving 32 bits
RatioToScale(a, c) ==
    LET a1 == a * 100
        q1 == a1 \div c
        r1 == a1 % c
    IN  q1 * 100 + (r1 * 100) \div c

---------------------------------------------------------------------------
(* RiskConfig *)

\* A faulty variant: the default synergy strength is 1.0.
RiskConfigOfFullSynergy(hazard_type) ==
    [hazard_type |-> hazard_type,
     tau_H |-> 3500, tau_L |-> 2500, tau_V |-> 3000,
     lambda_mix |-> 7000, kappa_synergy |-> 10000,
     alpha |-> 1, beta |-> 1, gamma |-> 1]

RiskConfigOf(hazard_type) ==
    [hazard_type |-> hazard_type,
     tau_H |-> 3500, tau_L |-> 2500, tau_V |-> 3000,
     lambda_mix |-> 7000, kappa_synergy |-> 3000,
     alpha |-> 1, beta |-> 1, gamma |-> 1]

DefaultConfig == RiskConfigOf("landslide")

\* Caller-supplied configurations: other thresholds, a synergy strength above 1
\* (the unclipped R exceeds 1), whole exponents other than 1.
StrongSynergyConfig ==
    [hazard_type |-> "rockfall",
     tau_H |-> 5000, tau_L |-> 5000, tau_V |-> 5000,
     lambda_mix |-> 5000, kappa_synergy |-> 30000,
     alpha |-> 2, beta |-> 1, gamma |-> 0]

ProductOnlyConfig ==
    [hazard_type |-> "debris_flow",
     tau_H |-> 0, tau_L |-> 2500, tau_V |-> 9000,
     lambda_mix |-> 10000, kappa_synergy |-> 0,
     alpha |-> 1, beta |-> 2, gamma |-> 1]

Configs == {DefaultConfig, StrongSynergyConfig, ProductOnlyConfig}

---------------------------------------------------------------------------
(* borromean_score *)

Min3(a, b, c) == Min2(a, Min2(b, c))

\* A faulty variant: the gate compares with >=, so a value equal to its threshold passes.
GateInclusive(h, l, v, cfg) ==
    (h >= cfg.tau_H) /\ (l >= cfg.tau_L) /\ (v >= cfg.tau_V)

\* Threshold gate: all rings strictly above their tau
Gate(h, l, v, cfg) == (h > cfg.tau_H) /\ (l > cfg.tau_L) /\ (v > cfg.tau_V)

\* A faulty variant: the synergy term is weighted by lambda_mix too.
MixedScoreSynergyByLambda(h, l, v, cfg) ==
    LET R0 == Mul(Mul(Pow(h, cfg.alpha), Pow(l, cfg.beta)), Pow(v, cfg.gamma))
        S  == Mul(cfg.kappa_synergy, Min3(h, l, v))
    IN  Mul(cfg.lambda_mix, R0) + Mul(cfg.lambda_mix, S)

\* A faulty variant: H's exponent carries the wrong sign (H ** -alpha).
MixedScoreInverseH(h, l, v, cfg) ==
    LET invH == (SCALE * SCALE) \div Pow(h, cfg.alpha)
        R0 == Mul(Mul(invH, Pow(l, cfg.beta)), Pow(v, cfg.gamma))
        S  == Mul(cfg.kappa_synergy, Min3(h, l, v))
    IN  Mul(cfg.lambda_mix, R0) + Mul(SCALE - cfg.lambda_mix, S)

MixedScore(h, l, v, cfg) ==
    LET R0 == Mul(Mul(Pow(h, cfg.alpha), Pow(l, cfg.beta)), Pow(v, cfg.gamma))
        S  == Mul(cfg.kappa_synergy, Min3(h, l, v))
    IN  Mul(cfg.lambda_mix, R0) + Mul(SCALE - cfg.lambda_mix, S)

borromean_score(h, l, v, cfg) ==
    LET gate == Gate(h, l, v, cfg)
        Rm   == MixedScore(h, l, v, cfg)
        Rg   == IF ~gate THEN 0 ELSE Rm
    IN  [R |-> Clip(Rg, 0, SCALE), gate_passed |-> gate]

---------------------------------------------------------------------------
(* Direct calls of borromean_score *)

HValues == {1000, 3500, 3600, 9000, 10000}
LValues == {2500, 2600, 9000}
VValues == {1000, 3000, 5100, 9000, 10000}

\* One call; the model keeps two of them side by side, to compare them.
BorromeanCall ==
    /\ Len(bcalls) < 2
    /\ \E h \in HValues, l \in LValues, v \in VValues, cfg \in Configs :
        LET ret  == borromean_score(h, l, v, cfg)
            call == [H |-> h, L |-> l, V |-> v, config |-> cfg,
                     R |-> ret.R, gate_passed |-> ret.gate_passed]
        IN  /\ bcalls' = Append(bcalls, call)
            /\ UNCHANGED <<apivars, auxvars, riskvars, mcvars, lorevars>>

---------------------------------------------------------------------------
(* Factor scores: compute_H, compute_L, compute_V *)

\* e ** -1, and the argument from which e ** -t is below half of 1/SCALE
ExpMinusOne == 3679
ExpCutoff == 100000

RoundDiv(a, b) == (2 * a + b) \div (2 * b)

\* Taylor series of e ** -f for 0 <= f < 1: term k is f^k / k!, signs alternate
RECURSIVE ExpSeries(_, _, _)
ExpSeries(f, k, term) ==
    IF term = 0 \/ k > 12 THEN 0
    ELSE term - ExpSeries(f, k + 1, RoundDiv(term * f, k * SCALE))

RECURSIVE ExpWhole(_)
ExpWhole(w) == IF w = 0 THEN SCALE ELSE Mul(ExpMinusOne, ExpWhole(w - 1))

\* np.exp(-t) for t >= 0
ExpNeg(t) ==
    IF t >= ExpCutoff THEN 0
    ELSE RoundDiv(ExpWhole(t \div SCALE) * ExpSeries(t % SCALE, 1, SCALE), SCALE)

\* logistic(x, k, x0) = 1 / (1 + exp(-k (x - x0))); k in hundredths.
\* For k (x - x0) < 0 the same value is e / (1 + e) with e = exp(k (x - x0)).
logistic(x, k, x0) ==
    LET z == (k * (x - x0)) \div 100
    IN  IF z >= 0 THEN (SCALE * SCALE) \div (SCALE + ExpNeg(z))
        ELSE (ExpNeg(-z) * SCALE) \div (SCALE + ExpNeg(-z))

\* Weights: slope=0.4, curvature=0.15, lithology=0.15, rainfall=0.3
WeightedH(slope_term, curv_term, lith_term, rain_term) ==
    (4000 * slope_term + 1500 * curv_term + 1500 * lith_term + 3000 * rain_term)
        \div SCALE

\* A faulty variant: a rockfall counts the slope term twice and drops the rain.
compute_H_by_hazard(slope_deg, curvature, lith_erod, rain_exceed, hazard_type) ==
    LET slope_term == logistic(slope_deg, 15, 200000)
        curv_term  == logistic(-curvature, 80, 0)
        rain_term  == IF hazard_type = "rockfall" THEN slope_term ELSE rain_exceed
    IN  Clip(WeightedH(slope_term, curv_term, lith_erod, rain_term), 0, SCALE)

compute_H(slope_deg, curvature, lith_erod, rain_exceed, hazard_type) ==
    LET slope_term == logistic(slope_deg, 15, 200000)
        curv_term  == logistic(-curvature, 80, 0)
        lith_term  == lith_erod
        rain_term  == rain_exceed
    IN  Clip(WeightedH(slope_term, curv_term, lith_term, rain_term), 0, SCALE)

compute_L(lore_signal) == Clip(lore_signal, 0, SCALE)

\* A faulty variant: the weighted sum is returned without np.clip.
compute_V_unclipped(exposure, fragility) ==
    (7000 * exposure + 3000 * fragility) \div SCALE

\* A faulty variant: the weights of exposure and fragility are exchanged.
compute_V_swapped(exposure, fragility) ==
    Clip((3000 * exposure + 7000 * fragility) \div SCALE, 0, SCALE)

compute_V(exposure, fragility) ==
    Clip((7000 * exposure + 3000 * fragility) \div SCALE, 0, SCALE)

---------------------------------------------------------------------------
(* The random source: np.random's process-wide generator *)

\* One step of the generator.
NextRng(s) == (5 * s + 3) % RngMod

\* The standard-normal deviate read off a generator state, in whole sigmas.
Gauss(s) == (s % 5) - 2

\* A faulty variant: the draws also depend on how many calls were made before.
Draw3Drifting(s) ==
    LET t == (s + Len(calls)) % RngMod
    IN  <<Gauss(t), Gauss(NextRng(t)), Gauss(NextRng(NextRng(t)))>>

\* Three successive draws, as np.random.normal(0, 1, 3) or three single calls.
Draw3(s) == <<Gauss(s), Gauss(NextRng(s)), Gauss(NextRng(NextRng(s)))>>

After3(s) == NextRng(NextRng(NextRng(s)))

---------------------------------------------------------------------------
(* np.linalg.cholesky of a 3x3 matrix (its lower triangle) *)

\* sqrt of a fixed-point number
FSqrt(x) == ISqrt(x * SCALE)

cholesky(A) ==
    LET d1  == A[1][1]
        l11 == FSqrt(d1)
        l21 == IF l11 > 0 THEN (A[2][1] * SCALE) \div l11 ELSE 0
        l31 == IF l11 > 0 THEN (A[3][1] * SCALE) \div l11 ELSE 0
        d2  == A[2][2] - Mul(l21, l21)
        l22 == FSqrt(d2)
        l32 == IF l22 > 0 THEN ((A[3][2] - Mul(l31, l21)) * SCALE) \div l22 ELSE 0
        d3  == A[3][3] - Mul(l31, l31) - Mul(l32, l32)
        l33 == FSqrt(d3)
    IN  IF d1 <= 0 \/ d2 <= 0 \/ d3 <= 0 THEN Raised("LinAlgError")
        ELSE [status |-> "returned",
              value |-> << <<l11, 0, 0>>, <<l21, l22, 0>>, <<l31, l32, l33>> >>]

\* L_chol @ uncorrelated
MatVec(M, z) == [r \in 1..3 |-> M[r][1] * z[1] + M[r][2] * z[2] + M[r][3] * z[3]]

---------------------------------------------------------------------------
(* mc_uncertainty: one loop iteration *)

\* A faulty variant: every sigma is raised to at least 0.01 before the draw.
IndependentFloored(sig, z) ==
    <<z[1] * Max2(sig[1], 100), z[2] * Max2(sig[2], 100), z[3] * Max2(sig[3], 100)>>

\* np.random.normal(0, sigma) three times: sigma times a standard deviate each
Independent(sig, z) == <<z[1] * sig[1], z[2] * sig[2], z[3] * sig[3]>>

\* A faulty variant: the fallback draws with np.random.normal(0, 1), the sigmas forgotten.
NoiseUnscaledFallback(corr, sig, z) ==
    IF corr # None
    THEN IF cholesky(corr).status # "raised"
         THEN LET correlated == MatVec(cholesky(corr).value, z)
              IN  [branch |-> "correlated", z |-> z,
                   noise |-> <<Mul(correlated[1], sig[1]),
                               Mul(correlated[2], sig[2]),
                               Mul(correlated[3], sig[3])>>]
         ELSE [branch |-> "fallback", z |-> z,
               noise |-> <<z[1] * SCALE, z[2] * SCALE, z[3] * SCALE>>]
    ELSE [branch |-> "independent", z |-> z, noise |-> Independent(sig, z)]

\* Lines 200-218: the noise of one iteration, the branch that produced it and
\* the standard deviates z it was made from.
Noise(corr, sig, z) ==
    IF corr # None
    THEN IF cholesky(corr).status # "raised"
         THEN LET correlated == MatVec(cholesky(corr).value, z)
              IN  [branch |-> "correlated", z |-> z,
                   noise |-> <<Mul(correlated[1], sig[1]),
                               Mul(correlated[2], sig[2]),
                               Mul(correlated[3], sig[3])>>]
         ELSE [branch |-> "fallback", z |-> z, noise |-> Independent(sig, z)]
    ELSE [branch |-> "independent", z |-> z, noise |-> Independent(sig, z)]

McIter ==
    /\ pc = "mc_loop"
    /\ i < n_samples
    /\ LET noise    == Noise(correlation, sigma, Draw3(rng))
           H_sample == Clip(H + noise.noise[1], 0, SCALE)
           L_sample == Clip(L + noise.noise[2], 0, SCALE)
           V_sample == Clip(V + noise.noise[3], 0, SCALE)
           first    == i < n_samples \div 3
       IN  /\ rng' = After3(rng)
           /\ branches' = Append(branches, noise)
           /\ R_samples' =
                Append(R_samples, borromean_score(H_sample, L_sample, V_sample, config).R)
           /\ R_samples_H_only' =
                IF first
                THEN Append(R_samples_H_only, borromean_score(H_sample, L, V, config).R)
                ELSE R_samples_H_only
           /\ R_samples_L_only' =
                IF first
                THEN Append(R_samples_L_only, borromean_score(H, L_sample, V, config).R)
                ELSE R_samples_L_only
           /\ R_samples_V_only' =
                IF first
                THEN Append(R_samples_V_only, borromean_score(H, L, V_sample, config).R)
                ELSE R_samples_V_only
    /\ i' = i + 1
    /\ UNCHANGED <<apivars, auxvars, bvars, lorevars, pc, op, args, H, L, V, config, R, gate_passed, result,
                   n_samples, sigma, correlation, uncertainty>>

---------------------------------------------------------------------------
(* mc_uncertainty: statistics of the collected samples *)

RECURSIVE SumSeq(_)
SumSeq(s) == IF s = <<>> THEN 0 ELSE s[1] + SumSeq(Tail(s))

\* s with its j-th element removed
Without(s, j) == [k \in 1 .. Len(s) - 1 |-> IF k < j THEN s[k] ELSE s[k + 1]]

RECURSIVE Sorted(_)
Sorted(s) ==
    IF s = <<>> THEN <<>>
    ELSE LET j == CHOOSE k \in 1 .. Len(s) : \A m \in 1 .. Len(s) : s[k] <= s[m]
         IN  <<s[j]>> \o Sorted(Without(s, j))

\* Len(s)^2 times the population variance of s: the sum over pairs of the
\* squared differences, which equals n * sum(x^2) - sum(x)^2.
VarNum(s) ==
    SumSeq([k \in 1 .. Len(s) |->
              SumSeq([m \in 1 .. Len(s) |->
                        IF k < m THEN (s[k] - s[m]) * (s[k] - s[m]) ELSE 0])])

\* np.mean
Mean(s) == IF s = <<>> THEN NaN ELSE [num |-> SumSeq(s), den |-> Len(s)]

\* np.std: the square root of the population variance
Std(s) == IF s = <<>> THEN NaN ELSE [num |-> ISqrt(VarNum(s)), den |-> Len(s)]

\* np.percentile(s, q) with linear interpolation, for a non-empty s
Percentile(s, q) ==
    LET srt  == Sorted(s)
        p    == (Len(s) - 1) * q
        lo   == p \div 100 + 1
        hi   == Min2(lo + 1, Len(s))
        frac == p % 100
    IN  [num |-> 100 * srt[lo] + frac * (srt[hi] - srt[lo]), den |-> 100]

\* np.var(samples) if samples else 0.0, in units of 1 / Len^2; the three
\* one-factor lists are appended to together, so they share their length.
VarOrZero(s) == IF s # <<>> THEN VarNum(s) ELSE 0

\* A faulty variant: the fallback gives each factor 0.33.
SensitivitiesThirds(var_H, var_L, var_V) ==
    LET total_var == var_H + var_L + var_V
    IN  IF total_var > 0
        THEN [H |-> [num |-> var_H, den |-> total_var],
              L |-> [num |-> var_L, den |-> total_var],
              V |-> [num |-> var_V, den |-> total_var]]
        ELSE [H |-> [num |-> 33, den |-> 100],
              L |-> [num |-> 33, den |-> 100],
              V |-> [num |-> 33, den |-> 100]]

\* Lines 261-270: the three sensitivity indices as ratios [num, den].
Sensitivities(var_H, var_L, var_V) ==
    LET total_var == var_H + var_L + var_V
    IN  IF total_var > 0
        THEN [H |-> [num |-> var_H, den |-> total_var],
              L |-> [num |-> var_L, den |-> total_var],
              V |-> [num |-> var_V, den |-> total_var]]
        ELSE [H |-> [num |-> 33, den |-> 100],
              L |-> [num |-> 33, den |-> 100],
              V |-> [num |-> 34, den |-> 100]]


\* What lines 243-280 do with the collected samples.  On an empty R_array
\* np.mean and np.std give nan; np.percentile raises IndexError in numpy >= 1.22
\* and gives nan before: both outcomes are possible.
McOutcomes(Rs, RsH, RsL, RsV) ==
    LET sens == Sensitivities(VarOrZero(RsH), VarOrZero(RsL), VarOrZero(RsV))
        ret(p05, p95) ==
            [status |-> "returned",
             R_mean |-> Mean(Rs), R_std |-> Std(Rs), R_p05 |-> p05, R_p95 |-> p95,
             H_sensitivity |-> sens.H, L_sensitivity |-> sens.L,
             V_sensitivity |-> sens.V]
    IN  IF Rs = <<>> THEN {Raised("IndexError"), ret(NaN, NaN)}
        ELSE {ret(Percentile(Rs, 5), Percentile(Rs, 95))}

---------------------------------------------------------------------------
(* Direct calls of mc_uncertainty *)

DefaultSigma == <<500, 800, 400>>
ZeroSigma == <<0, 0, 0>>

\* Correlation matrices: a positive-definite one, and two that are not
\* (an indefinite one, and a singular one of all ones).
CorrPD == << <<10000, 5000, 2000>>, <<5000, 10000, 3000>>, <<2000, 3000, 10000>> >>
CorrIndefinite == << <<10000, 20000, 0>>, <<20000, 10000, 0>>, <<0, 0, 10000>> >>
CorrSingular == << <<10000, 10000, 10000>>, <<10000, 10000, 10000>>,
                   <<10000, 10000, 10000>> >>

Correlations == {None, CorrPD, CorrIndefinite, CorrSingular}

\* Nominal scores: well above the default thresholds, L just below its
\* threshold, all at the top, all at the bottom.
Nominals == {<<7667, 6000, 7050>>, <<7667, 2000, 7050>>,
             <<10000, 10000, 10000>>, <<0, 0, 0>>}

McCall ==
    /\ pc = "idle"
    /\ \E hlv \in Nominals, cfg \in {DefaultConfig, StrongSynergyConfig},
          n \in 0 .. MaxSamples, sig \in {DefaultSigma, ZeroSigma},
          corr \in Correlations :
        /\ H' = hlv[1] /\ L' = hlv[2] /\ V' = hlv[3]
        /\ config' = cfg
        /\ n_samples' = n
        /\ sigma' = sig
        /\ correlation' = corr
    /\ op' = "mc_uncertainty"
    /\ pc' = "mc_loop"
    /\ UNCHANGED <<apivars, auxvars, bvars, lorevars, rng, args, R, gate_passed, result, i, R_samples,
                   R_samples_H_only, R_samples_L_only, R_samples_V_only,
                   branches, uncertainty>>

McReturn ==
    /\ pc = "mc_loop"
    /\ op = "mc_uncertainty"
    /\ i >= n_samples
    /\ \E out \in McOutcomes(R_samples, R_samples_H_only, R_samples_L_only,
                             R_samples_V_only) :
        /\ uncertainty' = out
        /\ pc' = out.status
    /\ UNCHANGED <<apivars, auxvars, bvars, lorevars, rng, op, args, H, L, V, config, R, gate_passed, result,
                   n_samples, sigma, correlation, i, R_samples, R_samples_H_only,
                   R_samples_L_only, R_samples_V_only, branches>>

---------------------------------------------------------------------------
(* calculate_risk *)

\* Python's round(x, 4) of a score num / den: to the nearest, ties to even.
RoundHalfEven(q, r, den) ==
    IF 2 * r > den \/ (2 * r = den /\ q % 2 = 1) THEN q + 1 ELSE q

Round4(x) == RoundHalfEven(x.num \div x.den, x.num % x.den, x.den)

\* Quotient and remainder of a * b by c, for 0 <= a <= c, in 32 bits.
RECURSIVE MulDivQR(_, _, _)
MulDivQR(a, b, c) ==
    IF b = 0 THEN [q |-> 0, r |-> 0]
    ELSE LET half == MulDivQR(a, b \div 2, c)
             r2   == 2 * half.r + (IF b % 2 = 1 THEN a ELSE 0)
         IN  [q |-> 2 * half.q + r2 \div c, r |-> r2 % c]

\* round(x, 4) of a ratio num / den in [0, 1]
Round4Ratio(x) ==
    LET qr == MulDivQR(x.num, SCALE, x.den)
    IN  RoundHalfEven(qr.q, qr.r, x.den)

\* A faulty variant: the cut points are compared with >, so a score equal to a cut point falls in the tier below.
RiskLevelExclusive(Rv) ==
    IF Rv.num > 8000 * Rv.den THEN "severe"
    ELSE IF Rv.num > 6000 * Rv.den THEN "high"
    ELSE IF Rv.num > 3000 * Rv.den THEN "medium"
    ELSE "low"

\* The 4-tier system, on the unrounded R = num / den.
RiskLevel(Rv) ==
    IF Rv.num >= 8000 * Rv.den THEN "severe"
    ELSE IF Rv.num >= 6000 * Rv.den THEN "high"
    ELSE IF Rv.num >= 3000 * Rv.den THEN "medium"
    ELSE "low"

Exactly(x) == [num |-> x, den |-> 1]

\* The metrics calculate_risk starts from, kept when no uncertainty is asked for.
ZeroMetrics ==
    [R_std |-> Exactly(0), R_p05 |-> Exactly(0), R_p95 |-> Exactly(0),
     H_sensitivity |-> Exactly(0), L_sensitivity |-> Exactly(0),
     V_sensitivity |-> Exactly(0)]

\* A faulty variant: the gate reported is recomputed from the reported score (R > 0).
ResultDictGateFromScore(h, l, v, Rv, metrics, gate, cfg) ==
    [status |-> "returned",
     H_score |-> h, L_score |-> l, V_score |-> v,
     R_score |-> Round4(Rv),
     R_std |-> Round4(metrics.R_std),
     R_p05 |-> Round4(metrics.R_p05),
     R_p95 |-> Round4(metrics.R_p95),
     H_sensitivity |-> Round4Ratio(metrics.H_sensitivity),
     L_sensitivity |-> Round4Ratio(metrics.L_sensitivity),
     V_sensitivity |-> Round4Ratio(metrics.V_sensitivity),
     risk_level |-> RiskLevel(Rv),
     gate_passed |-> (Rv.num > 0),
     config |-> [hazard_type |-> cfg.hazard_type,
                 tau_H |-> cfg.tau_H, tau_L |-> cfg.tau_L, tau_V |-> cfg.tau_V,
                 lambda_mix |-> cfg.lambda_mix,
                 kappa_synergy |-> cfg.kappa_synergy]]

\* The returned dictionary (lines 361-392).
ResultDict(h, l, v, Rv, metrics, gate, cfg) ==
    [status |-> "returned",
     H_score |-> h, L_score |-> l, V_score |-> v,
     R_score |-> Round4(Rv),
     R_std |-> Round4(metrics.R_std),
     R_p05 |-> Round4(metrics.R_p05),
     R_p95 |-> Round4(metrics.R_p95),
     H_sensitivity |-> Round4Ratio(metrics.H_sensitivity),
     L_sensitivity |-> Round4Ratio(metrics.L_sensitivity),
     V_sensitivity |-> Round4Ratio(metrics.V_sensitivity),
     risk_level |-> RiskLevel(Rv),
     gate_passed |-> gate,
     config |-> [hazard_type |-> cfg.hazard_type,
                 tau_H |-> cfg.tau_H, tau_L |-> cfg.tau_L, tau_V |-> cfg.tau_V,
                 lambda_mix |-> cfg.lambda_mix,
                 kappa_synergy |-> cfg.kappa_synergy]]

\* Arguments: slope_deg, curvature, rain_exceed, lore_signal, exposure and
\* fragility in fixed point, lith_class a whole number.  The documented example,
\* a lore signal just below tau_L, values far above and far below their ranges,
\* all zero, and a scenario whose scores lie around the 0.3 cut point.
RiskInputs ==
    { [slope_deg |-> 350000, curvature |-> -5000, lith_class |-> 3,
       rain_exceed |-> 8000, lore_signal |-> 6000, exposure |-> 7500,
       fragility |-> 6000],
      [slope_deg |-> 350000, curvature |-> -5000, lith_class |-> 3,
       rain_exceed |-> 8000, lore_signal |-> 2000, exposure |-> 7500,
       fragility |-> 6000],
      [slope_deg |-> 2000000, curvature |-> -300000, lith_class |-> 9,
       rain_exceed |-> 50000, lore_signal |-> 17000, exposure |-> 20000,
       fragility |-> 30000],
      [slope_deg |-> -500000, curvature |-> 300000, lith_class |-> -3,
       rain_exceed |-> -10000, lore_signal |-> -5000, exposure |-> -10000,
       fragility |-> -10000],
      [slope_deg |-> 0, curvature |-> 0, lith_class |-> 1,
       rain_exceed |-> 0, lore_signal |-> 0, exposure |-> 0,
       fragility |-> 0],
      [slope_deg |-> 350000, curvature |-> -5000, lith_class |-> 3,
       rain_exceed |-> 8000, lore_signal |-> 6600, exposure |-> 8800,
       fragility |-> 6000] }

HazardTypes == {"landslide", "rockfall"}

\* Lines 320-359: up to the return without uncertainty, or to the entry of
\* mc_uncertainty's loop with n_samples=300 (scaled to MaxSamples).
CalculateRisk ==
    /\ pc = "idle"
    /\ \E inp \in RiskInputs, hazard_type \in HazardTypes,
          config_arg \in {None, <<StrongSynergyConfig>>},
          compute_uncertainty \in BOOLEAN :
        LET cfg == IF config_arg = None THEN RiskConfigOf(hazard_type)
                   ELSE config_arg[1]
            lith_erod == ((inp.lith_class - 1) * SCALE) \div 4
            h == compute_H(inp.slope_deg, inp.curvature, lith_erod,
                           inp.rain_exceed, hazard_type)
            l == compute_L(inp.lore_signal)
            v == compute_V(inp.exposure, inp.fragility)
            b == borromean_score(h, l, v, cfg)
        IN  /\ args' = [inputs |-> inp, hazard_type |-> hazard_type,
                        config |-> config_arg,
                        compute_uncertainty |-> compute_uncertainty]
            /\ config' = cfg
            /\ H' = h /\ L' = l /\ V' = v
            /\ R' = b.R /\ gate_passed' = b.gate_passed
            /\ IF compute_uncertainty
               THEN /\ n_samples' = MaxSamples
                    /\ sigma' = DefaultSigma
                    /\ correlation' = None
                    /\ pc' = "mc_loop"
                    /\ result' = result
               ELSE /\ result' = ResultDict(h, l, v, Exactly(b.R), ZeroMetrics,
                                            b.gate_passed, cfg)
                    /\ pc' = "returned"
                    /\ UNCHANGED <<n_samples, sigma, correlation>>
    /\ op' = "calculate_risk"
    /\ seed' = rng
    /\ UNCHANGED <<apivars, calls, lcalls, other, scalls, bvars, lorevars, rng, i, R_samples, R_samples_H_only, R_samples_L_only,
                   R_samples_V_only, branches, uncertainty>>

\* mc_uncertainty's return into calculate_risk, and lines 357-392.
CalcReturn ==
    /\ pc = "mc_loop"
    /\ op = "calculate_risk"
    /\ i >= n_samples
    /\ \E out \in McOutcomes(R_samples, R_samples_H_only, R_samples_L_only,
                             R_samples_V_only) :
        /\ uncertainty' = out
        /\ result' = IF out.status = "raised" THEN out
                     ELSE ResultDict(H, L, V, out.R_mean, out, gate_passed, config)
        /\ pc' = out.status
    /\ UNCHANGED <<apivars, auxvars, bvars, lorevars, rng, op, args, H, L, V, config, R, gate_passed,
                   n_samples, sigma, correlation, i, R_samples, R_samples_H_only,
                   R_samples_L_only, R_samples_V_only, branches>>

---------------------------------------------------------------------------
(* ai_agents/config.py: the tables the lore scorer reads *)

LORE_WEIGHTS == [recent |-> 3500, credibility |-> 4000, spatial |-> 2500]

SourceTypes == {"historical", "indigenous", "newspaper", "field_notes",
                "oral_tradition", "eyewitness", "scientific", "official",
                "unknown"}

SOURCE_CREDIBILITY ==
    [t \in SourceTypes |->
        CASE t = "scientific" -> 9000
          [] t = "official" -> 9000
          [] t = "historical" -> 8000
          [] t = "newspaper" -> 7000
          [] t = "field_notes" -> 7000
          [] t = "eyewitness" -> 6500
          [] t = "indigenous" -> 6000
          [] t = "oral_tradition" -> 4000
          [] t = "unknown" -> 2000]

CULTURAL_MEMORY_ENABLED == TRUE
CULTURAL_MEMORY_BASELINE == 2000
CULTURAL_MEMORY_BOOST == 1800
CULTURAL_MEMORY_DECAY == 200
CULTURAL_SOURCES == {"oral_tradition", "indigenous"}

---------------------------------------------------------------------------
(* LoreScoreCalculator: the three component scores *)

\* Years and kilometres are fixed-point numbers; an Optional value is None
\* or <<x>>.

\* A faulty variant: the minimum recent score is not applied to dated events.
calculate_recent_score_unfloored(years_ago, uncertainty_years, source_type) ==
    IF years_ago = None \/ years_ago[1] < 0 THEN 2000
    ELSE LET y == years_ago[1]
             base_score == ExpNeg(y \div 50)
             cultural_memory ==
                 CULTURAL_MEMORY_BASELINE
                   + Mul(CULTURAL_MEMORY_BOOST, ExpNeg(y \div CULTURAL_MEMORY_DECAY))
             with_memory ==
                 IF CULTURAL_MEMORY_ENABLED /\ source_type # None
                    /\ source_type[1] \in CULTURAL_SOURCES
                 THEN Max2(base_score, cultural_memory)
                 ELSE base_score
             penalized ==
                 IF uncertainty_years > 0
                 THEN (with_memory * SCALE) \div (SCALE + uncertainty_years \div 10)
                 ELSE with_memory
         IN  Min2(Max2(penalized, 1000), SCALE)

\* calculate_recent_score(years_ago, uncertainty_years, source_type)
calculate_recent_score(years_ago, uncertainty_years, source_type) ==
    LET min_recent_score == 2000
        decay_rate == 50
    IN  IF years_ago = None \/ years_ago[1] < 0 THEN min_recent_score
        ELSE LET y == years_ago[1]
                 base_score == ExpNeg(y \div decay_rate)
                 cultural_memory ==
                     CULTURAL_MEMORY_BASELINE
                       + Mul(CULTURAL_MEMORY_BOOST, ExpNeg(y \div CULTURAL_MEMORY_DECAY))
                 with_memory ==
                     IF CULTURAL_MEMORY_ENABLED /\ source_type # None
                        /\ source_type[1] \in CULTURAL_SOURCES
                     THEN Max2(base_score, cultural_memory)
                     ELSE base_score
                 penalized ==
                     IF uncertainty_years > 0
                     THEN (with_memory * SCALE) \div (SCALE + uncertainty_years \div 10)
                     ELSE with_memory
                 final_score == Max2(penalized, min_recent_score)
             IN  Min2(Max2(final_score, 1000), SCALE)

\* A faulty variant: the sum of base and bonuses is returned without the clip.
calculate_credibility_score_unclipped(source_type, has_author, has_url, num_corroborating_sources) ==
    (IF source_type \in DOMAIN SOURCE_CREDIBILITY
     THEN SOURCE_CREDIBILITY[source_type] ELSE 3000)
      + (IF has_author THEN 500 ELSE 0)
      + (IF has_url THEN 500 ELSE 0)
      + (IF num_corroborating_sources > 0
         THEN Mul(1000, SCALE - ExpNeg((num_corroborating_sources * SCALE) \div 3))
         ELSE 0)

\* calculate_credibility_score(source_type, has_author, has_url, n)
calculate_credibility_score(source_type, has_author, has_url, num_corroborating_sources) ==
    LET base_credibility ==
            IF source_type \in DOMAIN SOURCE_CREDIBILITY
            THEN SOURCE_CREDIBILITY[source_type] ELSE 3000
        author_bonus == IF has_author THEN 500 ELSE 0
        url_bonus == IF has_url THEN 500 ELSE 0
        corroboration_bonus ==
            IF num_corroborating_sources > 0
            THEN Mul(1000, SCALE - ExpNeg((num_corroborating_sources * SCALE) \div 3))
            ELSE 0
        final_score == base_credibility + author_bonus + url_bonus
                         + corroboration_bonus
    IN  Min2(Max2(final_score, 0), SCALE)

\* A faulty variant: the decay scale sigma_d is 5 km instead of 0.5 km.
calculate_spatial_score_wide(distance_km) ==
    IF distance_km = None \/ distance_km[1] < 0 THEN 5000
    ELSE IF distance_km[1] = 0 THEN SCALE
    ELSE Min2(Max2(ExpNeg(distance_km[1] \div 5), 0), SCALE)

\* calculate_spatial_score(distance_km)
calculate_spatial_score(distance_km) ==
    IF distance_km = None \/ distance_km[1] < 0 THEN 5000
    ELSE IF distance_km[1] = 0 THEN SCALE
    ELSE Min2(Max2(ExpNeg(2 * distance_km[1]), 0), SCALE)

---------------------------------------------------------------------------
(* LoreScoreCalculator.calculate_l_score and update_lore_with_scores *)

\* Python's `x or 0` for an Optional number
OrZero(x) == IF x = None THEN 0 ELSE x[1]

\* bool(x) for an Optional string: None and "" are false
Truthy(x) == x # None /\ x[1] # ""

\* pydantic's ge=0, le=1 on a field of LoreScore
InUnit(x) == 0 <= x /\ x <= SCALE

\* A faulty variant: the three scores are added without their weights.
WeightedLUnweighted(w1, w2, w3, recent_score, credibility_score, spatial_score) ==
    recent_score + credibility_score + spatial_score

\* w1 * recent + w2 * credibility + w3 * spatial
WeightedL(w1, w2, w3, recent_score, credibility_score, spatial_score) ==
    (w1 * recent_score + w2 * credibility_score + w3 * spatial_score) \div SCALE

\* A faulty variant: weights_used is left at the field's default.
LoreScoreDefaultEcho(recent_score, credibility_score, spatial_score, l_score, weights_used) ==
    IF InUnit(recent_score) /\ InUnit(credibility_score)
       /\ InUnit(spatial_score) /\ InUnit(l_score)
    THEN [status |-> "returned",
          recent_score |-> recent_score,
          credibility_score |-> credibility_score,
          spatial_score |-> spatial_score,
          l_score |-> l_score,
          weights_used |-> [w1 |-> 3500, w2 |-> 4000, w3 |-> 2500]]
    ELSE Raised("ValidationError")

\* LoreScore(...): the constructor validates the four scores.
LoreScore(recent_score, credibility_score, spatial_score, l_score, weights_used) ==
    IF InUnit(recent_score) /\ InUnit(credibility_score)
       /\ InUnit(spatial_score) /\ InUnit(l_score)
    THEN [status |-> "returned",
          recent_score |-> recent_score,
          credibility_score |-> credibility_score,
          spatial_score |-> spatial_score,
          l_score |-> l_score,
          weights_used |-> weights_used]
    ELSE Raised("ValidationError")

calculate_l_score(w, rec) ==
    LET recent_score ==
            calculate_recent_score(<<OrZero(rec.years_ago)>>,
                                   OrZero(rec.event_date_uncertainty_years), None)
        credibility_score ==
            calculate_credibility_score(rec.source_type, Truthy(rec.source_author),
                                        Truthy(rec.source_url), 0)
        spatial_score == calculate_spatial_score(rec.distance_to_report)
        w1 == w.recent
        w2 == w.credibility
        w3 == w.spatial
        l_score == WeightedL(w1, w2, w3, recent_score, credibility_score,
                             spatial_score)
    IN  LoreScore(recent_score, credibility_score, spatial_score, l_score,
                  [w1 |-> w1, w2 |-> w2, w3 |-> w3])

\* LoreScoreCalculator(weights): self.weights = weights or Config.LORE_WEIGHTS
\* (None and an empty dict are both falsy.)
CalculatorWeights(arg) ==
    IF arg = None \/ DOMAIN arg[1] = {} THEN LORE_WEIGHTS ELSE arg[1]

CalculateLScore ==
    /\ lscore' = calculate_l_score(weights, lore)
    /\ UNCHANGED <<apivars, auxvars, bvars, riskvars, mcvars, weights_arg, weights, lore, lore_ret>>

\* A faulty variant: the update also writes the defaults it scored with into
\* the record (years_ago 0 and uncertainty 0 for missing ones).
UpdateLoreWithScoresNormalizing ==
    LET scores == calculate_l_score(weights, lore)
    IN  /\ lscore' = scores
        /\ IF scores.status = "raised"
           THEN /\ lore_ret' = scores
                /\ lore' = lore
           ELSE /\ lore' = [lore EXCEPT
                              !.years_ago = <<OrZero(lore.years_ago)>>,
                              !.event_date_uncertainty_years =
                                  <<OrZero(lore.event_date_uncertainty_years)>>,
                              !.recent_score = <<scores.recent_score>>,
                              !.credibility_score = <<scores.credibility_score>>,
                              !.spatial_score = <<scores.spatial_score>>,
                              !.l_score = <<scores.l_score>>]
                /\ lore_ret' = [status |-> "returned", value |-> lore']
        /\ UNCHANGED <<apivars, auxvars, bvars, riskvars, mcvars, weights_arg, weights>>

UpdateLoreWithScores ==
    LET scores == calculate_l_score(weights, lore)
    IN  /\ lscore' = scores
        /\ IF scores.status = "raised"
           THEN /\ lore_ret' = scores
                /\ lore' = lore
           ELSE /\ lore' = [lore EXCEPT
                              !.recent_score = <<scores.recent_score>>,
                              !.credibility_score = <<scores.credibility_score>>,
                              !.spatial_score = <<scores.spatial_score>>,
                              !.l_score = <<scores.l_score>>]
                /\ lore_ret' = [status |-> "returned", value |-> lore']
        /\ UNCHANGED <<apivars, auxvars, bvars, riskvars, mcvars, weights_arg, weights>>

\* Records as the extraction collaborators build them: scores not yet set.
LoreRecords ==
    [event_narrative : {"Major landslide destroyed village"},
     place_name : {"Armero, Colombia"},
     years_ago : {None, <<-50000>>, <<0>>, <<390000>>, <<1000000>>, <<10000000>>},
     event_date_uncertainty_years : {None, <<0>>, <<500000>>},
     source_type : {"scientific", "historical", "oral_tradition", "unknown"},
     source_author : {None, <<"">>, <<"Colombian Geological Survey">>},
     source_url : {None, <<"https://example.com/armero">>},
     distance_to_report : {None, <<-10000>>, <<0>>, <<20000>>, <<150000>>},
     recent_score : {None}, credibility_score : {None},
     spatial_score : {None}, l_score : {None},
     confidence_band : {None}]

\* A dict with no keys.
EmptyWeights == <<>>

\* The weights argument of the constructor: absent, an empty dict, a
\* re-weighting that sums to 1, weights that sum to 3.
WeightArgs ==
    {None,
     <<EmptyWeights>>,
     <<[recent |-> 5000, credibility |-> 3000, spatial |-> 2000]>>,
     <<[recent |-> 10000, credibility |-> 10000, spatial |-> 10000]>>}

---------------------------------------------------------------------------
(* Initial states and specifications *)

\* The second invocation before it is made.
OtherIdle ==
    [pc |-> "idle", i |-> 0, H |-> 0, L |-> 0, V |-> 0, R_samples |-> <<>>,
     R_mean |-> NaN]

DefaultLore ==
    CHOOSE rec \in LoreRecords :
        /\ rec.years_ago = <<390000>>
        /\ rec.event_date_uncertainty_years = <<0>>
        /\ rec.source_type = "historical"
        /\ rec.source_author # None /\ rec.source_author # <<"">>
        /\ rec.source_url # None
        /\ rec.distance_to_report = <<150000>>

RiskIdle ==
    /\ bcalls = <<>>
    /\ pc = "idle"
    /\ op = "none"
    /\ args = None
    /\ H = 0 /\ L = 0 /\ V = 0
    /\ config = DefaultConfig
    /\ R = 0 /\ gate_passed = FALSE
    /\ n_samples = 0 /\ sigma = <<0, 0, 0>> /\ correlation = None
    /\ i = 0
    /\ R_samples = <<>>
    /\ R_samples_H_only = <<>>
    /\ R_samples_L_only = <<>>
    /\ R_samples_V_only = <<>>
    /\ branches = <<>>
    /\ uncertainty = NotCalled
    /\ result = NotCalled
    /\ seed = 0
    /\ calls = <<>> /\ lcalls = <<>> /\ scalls = <<>>
    /\ other = OtherIdle
    /\ request = None /\ response = NotCalled

LoreIdle ==
    /\ weights_arg = None
    /\ weights = LORE_WEIGHTS
    /\ lore = DefaultLore
    /\ lscore = NotCalled
    /\ lore_ret = NotCalled

\* The generator is seeded from the system's entropy: any state.
Init == RiskIdle /\ LoreIdle /\ rng \in 0 .. RngMod - 1

Next == CalculateRisk \/ McIter \/ CalcReturn

\* calculate_risk, with or without its Monte Carlo stage
Spec == Init /\ [][Next]_vars

NextMC == McCall \/ McIter \/ McReturn

\* mc_uncertainty called directly
SpecMC == Init /\ [][NextMC]_vars

InitBorromean == RiskIdle /\ LoreIdle /\ rng = 0

NextBorromean == BorromeanCall

\* borromean_score called directly
SpecBorromean == InitBorromean /\ [][NextBorromean]_vars

\* A calculator constructed with any of the weight arguments, and any record.
InitLore ==
    /\ RiskIdle
    /\ rng = 0
    /\ weights_arg \in WeightArgs
    /\ weights = CalculatorWeights(weights_arg)
    /\ lore \in LoreRecords
    /\ lscore = NotCalled
    /\ lore_ret = NotCalled

NextLore == CalculateLScore \/ UpdateLoreWithScores

\* The lore scorer
SpecLore == InitLore /\ [][NextLore]_vars

---------------------------------------------------------------------------
(* Properties of borromean_score (SpecBorromean) *)

AllAbove(c) ==
    c.H > c.config.tau_H /\ c.L > c.config.tau_L /\ c.V > c.config.tau_V

\* C1: in every call of borromean_score, a factor that is at or below its
\* threshold (equal counts as failing) gives the pair (R = 0, gate_passed =
\* False) whatever the other two are, and gate_passed is True exactly when all
\* three factors strictly exceed their thresholds.
C1_GateZeroesRisk ==
    \A k \in 1 .. Len(bcalls) :
        LET c == bcalls[k]
        IN  /\ (c.H <= c.config.tau_H \/ c.L <= c.config.tau_L
                  \/ c.V <= c.config.tau_V)
                => (c.R = 0 /\ c.gate_passed = FALSE)
            /\ c.gate_passed = AllAbove(c)

\* A call whose V equals tau_V while H and L are far above their thresholds.
C1_Witness ==
    \E k \in 1 .. Len(bcalls) :
        LET c == bcalls[k]
        IN  /\ c.V = c.config.tau_V
            /\ c.H = 9000 /\ c.L = 9000
            /\ c.H > c.config.tau_H /\ c.L > c.config.tau_L
            /\ c.R = 0 /\ c.gate_passed = FALSE

\* C6: of two calls with the same config that differ in one factor only, all
\* three factors above their thresholds in both, the one with the larger
\* factor returns an R at least as large.
C6_Monotone ==
    \A j, k \in 1 .. Len(bcalls) :
        LET a == bcalls[j]
            b == bcalls[k]
        IN  ( /\ a.config = b.config
              /\ AllAbove(a) /\ AllAbove(b)
              /\ \/ (a.H < b.H /\ a.L = b.L /\ a.V = b.V)
                 \/ (a.H = b.H /\ a.L < b.L /\ a.V = b.V)
                 \/ (a.H = b.H /\ a.L = b.L /\ a.V < b.V) )
            => a.R <= b.R

\* Two gate-passing calls that differ in H only, R strictly larger with the
\* larger H.
C6_Witness ==
    /\ Len(bcalls) = 2
    /\ bcalls[1].config = bcalls[2].config
    /\ AllAbove(bcalls[1]) /\ AllAbove(bcalls[2])
    /\ bcalls[1].H < bcalls[2].H
    /\ bcalls[1].L = bcalls[2].L /\ bcalls[1].V = bcalls[2].V
    /\ 0 < bcalls[1].R /\ bcalls[1].R < bcalls[2].R

---------------------------------------------------------------------------
(* Properties of calculate_risk (Spec) *)

Returned == op = "calculate_risk" /\ pc = "returned"

\* C2: in every dictionary calculate_risk returns, with or without the Monte
\* Carlo stage, gate_passed = False implies R_score = 0.
C2_GateFailMeansZeroR ==
    Returned => (result.gate_passed = FALSE => result.R_score = 0)

\* C3: in every dictionary calculate_risk returns, for inputs in range or not
\* and with or without the Monte Carlo stage, H_score, L_score, V_score and
\* R_score lie in [0, 1].
C3_ScoresInUnit ==
    Returned =>
        /\ 0 <= result.H_score /\ result.H_score <= SCALE
        /\ 0 <= result.L_score /\ result.L_score <= SCALE
        /\ 0 <= result.V_score /\ result.V_score <= SCALE
        /\ 0 <= result.R_score /\ result.R_score <= SCALE

\* A Monte Carlo result for inputs far above their ranges: the three factor
\* scores were clamped to 1 and R is the mean of the samples.
C3_Witness ==
    /\ Returned
    /\ args.compute_uncertainty
    /\ args.inputs.exposure > SCALE /\ args.inputs.lore_signal > SCALE
    /\ args.inputs.lith_class > 5
    /\ result.H_score = SCALE /\ result.L_score = SCALE /\ result.V_score = SCALE
    /\ result.R_score > 0

\* C8: every dictionary calculate_risk returns carries sensitivities that sum
\* to 1, up to the rounding of each to four decimals, whether or not
\* compute_uncertainty is set.
C8_SensitivitiesSumToOne ==
    Returned =>
        LET total == result.H_sensitivity + result.L_sensitivity
                       + result.V_sensitivity
        IN  SCALE - 1 <= total /\ total <= SCALE + 1

---------------------------------------------------------------------------
(* Properties of mc_uncertainty (SpecMC) *)

McDone == op = "mc_uncertainty" /\ pc \in {"returned", "raised"}

FallbackSplit(u) ==
    /\ u.H_sensitivity = [num |-> 33, den |-> 100]
    /\ u.L_sensitivity = [num |-> 33, den |-> 100]
    /\ u.V_sensitivity = [num |-> 34, den |-> 100]

\* C7: in every result mc_uncertainty returns, H_sensitivity, L_sensitivity
\* and V_sensitivity each lie in [0, 1] and sum to 1; they are the three
\* one-factor variances divided by their sum when that sum is positive, and
\* the fallback 0.33, 0.33, 0.34 when it is 0 (flat response, or no one-factor
\* samples).
C7_SensitivitiesNormalized ==
    (op = "mc_uncertainty" /\ pc = "returned") =>
        LET u     == uncertainty
            var_H == VarOrZero(R_samples_H_only)
            var_L == VarOrZero(R_samples_L_only)
            var_V == VarOrZero(R_samples_V_only)
        IN  /\ \A x \in {u.H_sensitivity, u.L_sensitivity, u.V_sensitivity} :
                 x.den > 0 /\ 0 <= x.num /\ x.num <= x.den
            /\ u.H_sensitivity.den = u.L_sensitivity.den
            /\ u.L_sensitivity.den = u.V_sensitivity.den
            /\ u.H_sensitivity.num + u.L_sensitivity.num + u.V_sensitivity.num
                 = u.H_sensitivity.den
            /\ var_H + var_L + var_V > 0
                 => /\ u.H_sensitivity = [num |-> var_H, den |-> var_H + var_L + var_V]
                    /\ u.L_sensitivity = [num |-> var_L, den |-> var_H + var_L + var_V]
                    /\ u.V_sensitivity = [num |-> var_V, den |-> var_H + var_L + var_V]
            /\ var_H + var_L + var_V = 0 => FallbackSplit(u)

\* A returned result whose one-factor variances are positive for two factors.
C7_Witness ==
    /\ op = "mc_uncertainty" /\ pc = "returned"
    /\ VarOrZero(R_samples_H_only) > 0
    /\ VarOrZero(R_samples_L_only) > 0
    /\ uncertainty.H_sensitivity.num > 0
    /\ uncertainty.L_sensitivity.num > 0
    /\ uncertainty.H_sensitivity.den
         = uncertainty.H_sensitivity.num + uncertainty.L_sensitivity.num
             + uncertainty.V_sensitivity.num

\* C9: mc_uncertainty called with n_samples = 0 does not raise and returns
\* R_mean, R_std, R_p05 and R_p95 as zeroes (none of them NaN) and the
\* fallback sensitivities.
C9_ZeroSamplesSafe ==
    (McDone /\ n_samples = 0) =>
        /\ pc = "returned"
        /\ uncertainty.R_mean = Exactly(0)
        /\ uncertainty.R_std = Exactly(0)
        /\ ~IsNaN(uncertainty.R_p05) /\ uncertainty.R_p05.num = 0
        /\ ~IsNaN(uncertainty.R_p95) /\ uncertainty.R_p95.num = 0
        /\ FallbackSplit(uncertainty)

NotPositiveDefinite(corr) == corr # None /\ cholesky(corr).status = "raised"

\* C10: with a correlation matrix that is not positive-definite, every
\* iteration takes the fallback branch and draws independent noise (sigma
\* times a standard deviate for each of H, L, V) and no LinAlgError leaves
\* mc_uncertainty; with n_samples >= 1 the loop runs all its iterations,
\* nothing is raised and a complete result is returned.
C10_CholeskyFallback ==
    (op = "mc_uncertainty" /\ NotPositiveDefinite(correlation)) =>
        /\ uncertainty # Raised("LinAlgError")
        /\ \A k \in 1 .. Len(branches) :
             /\ branches[k].branch = "fallback"
             /\ branches[k].noise = <<branches[k].z[1] * sigma[1],
                                      branches[k].z[2] * sigma[2],
                                      branches[k].z[3] * sigma[3]>>
        /\ (n_samples >= 1) => (pc # "raised")
        /\ (n_samples >= 1 /\ pc = "returned") =>
             /\ Len(branches) = n_samples /\ Len(R_samples) = n_samples
             /\ uncertainty.status = "returned"
             /\ ~IsNaN(uncertainty.R_mean) /\ ~IsNaN(uncertainty.R_std)
             /\ ~IsNaN(uncertainty.R_p05) /\ ~IsNaN(uncertainty.R_p95)

\* A returned call with an indefinite matrix, several iterations, non-zero
\* noise in each factor at some iteration.
C10_Witness ==
    /\ op = "mc_uncertainty" /\ pc = "returned"
    /\ NotPositiveDefinite(correlation)
    /\ n_samples >= 3
    /\ sigma = DefaultSigma
    /\ \E k \in 1 .. Len(branches) :
         /\ branches[k].branch = "fallback"
         /\ branches[k].noise[1] # 0 /\ branches[k].noise[2] # 0
         /\ branches[k].noise[3] # 0
    /\ uncertainty.R_mean.num > 0

---------------------------------------------------------------------------
(* Properties of the lore scorer (SpecLore) *)

ScoreFields(rec) ==
    {rec.recent_score, rec.credibility_score, rec.spatial_score, rec.l_score}

\* C4: with the default weights, update_lore_with_scores returns for every
\* record, and the returned record has recent_score, credibility_score,
\* spatial_score and l_score all set (not None), each in [0, 1]; this
\* includes records whose years_ago, uncertainty, author, URL or
\* distance_to_report is missing.
C4_LoreFieldsPopulated ==
    (weights = LORE_WEIGHTS /\ lore_ret.status # "none") =>
        /\ lore_ret.status = "returned"
        /\ lore_ret.value = lore
        /\ \A f \in ScoreFields(lore) : f # None /\ InUnit(f[1])
        /\ lore.l_score[1]
             = (LORE_WEIGHTS.recent * lore.recent_score[1]
                  + LORE_WEIGHTS.credibility * lore.credibility_score[1]
                  + LORE_WEIGHTS.spatial * lore.spatial_score[1]) \div SCALE

\* A scored record that came with none of the optional inputs.
C4_Witness ==
    /\ weights = LORE_WEIGHTS
    /\ lore_ret.status = "returned"
    /\ lore.years_ago = None
    /\ lore.event_date_uncertainty_years = None
    /\ lore.source_author = None
    /\ lore.source_url = None
    /\ lore.distance_to_report = None
    /\ lore.l_score # None /\ lore.l_score[1] > 0

\* C5: calculate_l_score, whatever weights the calculator was constructed
\* with (non-negative weights summing to more than 1 included), returns a
\* LoreScore, and its l_score lies in [0, 1].
C5_LScoreBoundedForAnyWeights ==
    lscore.status # "none" =>
        /\ lscore.status = "returned"
        /\ InUnit(lscore.l_score)

---------------------------------------------------------------------------
(* Input validation of calculate_risk (Spec) *)

\* The documented ranges of calculate_risk's arguments.
OutOfRange(inp) ==
    \/ inp.slope_deg < 0 \/ inp.slope_deg > 90 * SCALE
    \/ inp.lith_class < 1 \/ inp.lith_class > 5
    \/ \E x \in {inp.rain_exceed, inp.lore_signal, inp.exposure, inp.fragility} :
         x < 0 \/ x > SCALE

\* C11: a calculate_risk call whose slope_deg is outside [0, 90], whose
\* lith_class is outside [1, 5] or whose rain_exceed, lore_signal, exposure or
\* fragility is outside [0, 1] ends in a failure and returns no result
\* dictionary.
C11_RejectsOutOfRange ==
    (op = "calculate_risk" /\ pc \in {"returned", "raised"}
       /\ OutOfRange(args.inputs)) =>
        /\ pc = "raised"
        /\ result.status = "raised"

---------------------------------------------------------------------------
(* Repeated calls: a caller that calls one entry point, keeps what it       *)
(* returned and calls it again (SpecRepeat)                                 *)

\* The caller keeps the result of a finished calculate_risk and is ready for
\* the next call; the generator is either put back to the state the finished
\* call started from, or left where the call's draws took it.
NextCall ==
    /\ op = "calculate_risk" /\ pc = "returned"
    /\ calls = <<>>
    /\ calls' = <<[args |-> args, seed |-> seed, result |-> result]>>
    /\ \E same_state \in BOOLEAN : rng' = IF same_state THEN seed ELSE rng
    /\ pc' = "idle"
    /\ i' = 0
    /\ R_samples' = <<>>
    /\ R_samples_H_only' = <<>>
    /\ R_samples_L_only' = <<>>
    /\ R_samples_V_only' = <<>>
    /\ branches' = <<>>
    /\ uncertainty' = NotCalled
    /\ result' = NotCalled
    /\ UNCHANGED <<apivars, bvars, lorevars, op, args, H, L, V, config, R, gate_passed,
                   n_samples, sigma, correlation, seed, lcalls, other, scalls>>

\* The caller keeps the LoreScore of a finished calculate_l_score.
NextLoreCall ==
    /\ lscore.status # "none"
    /\ lcalls = <<>>
    /\ lcalls' = <<[lore |-> lore, weights |-> weights, ret |-> lscore]>>
    /\ lscore' = NotCalled
    /\ UNCHANGED <<apivars, bvars, riskvars, mcvars, weights_arg, weights, lore, lore_ret, seed, calls,
                   other, scalls>>

LoreUntouched ==
    lore = DefaultLore /\ weights = LORE_WEIGHTS /\ lscore = NotCalled /\ lcalls = <<>>

RiskUntouched == op = "none" /\ pc = "idle" /\ calls = <<>>

\* Either the risk engine is called from any generator state, or the lore
\* scorer is called with any weights on any record.
InitRepeat ==
    /\ RiskIdle
    /\ \/ (rng \in 0 .. RngMod - 1 /\ LoreIdle)
       \/ /\ rng = 0
          /\ weights_arg \in WeightArgs
          /\ weights = CalculatorWeights(weights_arg)
          /\ lore \in LoreRecords
          /\ lscore = NotCalled
          /\ lore_ret = NotCalled

NextRepeat ==
    \/ (LoreUntouched /\ CalculateRisk)
    \/ (LoreUntouched /\ McIter)
    \/ (LoreUntouched /\ CalcReturn)
    \/ (LoreUntouched /\ NextCall)
    \/ (RiskUntouched /\ CalculateLScore)
    \/ (RiskUntouched /\ NextLoreCall)

SpecRepeat == InitRepeat /\ [][NextRepeat]_vars

DifferInHazardTypeOnly(a, b) ==
    /\ a.hazard_type # b.hazard_type
    /\ a.inputs = b.inputs
    /\ a.compute_uncertainty = b.compute_uncertainty
    /\ a.config = None /\ b.config = None

WithoutHazardTag(res) == [res EXCEPT !.config.hazard_type = ""]

\* C14: two calculate_risk calls that differ in hazard_type only (config
\* None, same other arguments, same generator state at the start) return
\* results that agree on every field except config.hazard_type, which echoes
\* each call's own hazard_type.
C14_HazardTypeInformational ==
    (Returned /\ calls # <<>> /\ DifferInHazardTypeOnly(calls[1].args, args)
       /\ (calls[1].seed = seed \/ ~args.compute_uncertainty)) =>
        /\ WithoutHazardTag(result) = WithoutHazardTag(calls[1].result)
        /\ result.H_score = calls[1].result.H_score
        /\ result.R_score = calls[1].result.R_score
        /\ result.gate_passed = calls[1].result.gate_passed
        /\ result.risk_level = calls[1].result.risk_level
        /\ result.config.hazard_type = args.hazard_type
        /\ calls[1].result.config.hazard_type = calls[1].args.hazard_type

\* A landslide call and a rockfall call on the documented example, both with
\* the Monte Carlo stage from the same generator state, that pass the gate.
C14_Witness ==
    /\ Returned /\ calls # <<>>
    /\ DifferInHazardTypeOnly(calls[1].args, args)
    /\ calls[1].seed = seed
    /\ args.compute_uncertainty
    /\ result.gate_passed /\ result.R_score > 0 /\ result.R_std > 0
    /\ result.config.hazard_type = "rockfall"
    /\ calls[1].result.config.hazard_type = "landslide"

---------------------------------------------------------------------------
(* Two calculate_risk invocations in one process (SpecConcurrent).  The     *)
(* endpoint is a plain def, which the server runs on worker threads; the    *)
(* threads interleave between the iterations of mc_uncertainty's loop, and  *)
(* np.random is one generator for the whole process.                        *)

\* Iterations of the second invocation's loop (n_samples=300 in the code).
OtherSamples == 2

\* The second invocation's arguments: the documented example.
OtherInputs ==
    [slope_deg |-> 350000, curvature |-> -5000, lith_class |-> 3,
     rain_exceed |-> 8000, lore_signal |-> 6000, exposure |-> 7500,
     fragility |-> 6000]

\* Lines 320-356 in the second invocation, up to the entry of the loop.
OtherCalculateRisk ==
    /\ other.pc = "idle"
    /\ LET lith_erod == ((OtherInputs.lith_class - 1) * SCALE) \div 4
           h == compute_H(OtherInputs.slope_deg, OtherInputs.curvature, lith_erod,
                          OtherInputs.rain_exceed, "landslide")
           l == compute_L(OtherInputs.lore_signal)
           v == compute_V(OtherInputs.exposure, OtherInputs.fragility)
       IN  other' = [other EXCEPT !.pc = "mc_loop", !.H = h, !.L = l, !.V = v]
    /\ UNCHANGED <<apivars, bvars, riskvars, mcvars, lorevars, seed, calls, lcalls, scalls>>

\* One iteration of the loop (lines 198-227) in the second invocation: its
\* three draws come from, and advance, the same np.random generator.
OtherMcIter ==
    /\ other.pc = "mc_loop"
    /\ other.i < OtherSamples
    /\ LET noise    == Noise(None, DefaultSigma, Draw3(rng))
           H_sample == Clip(other.H + noise.noise[1], 0, SCALE)
           L_sample == Clip(other.L + noise.noise[2], 0, SCALE)
           V_sample == Clip(other.V + noise.noise[3], 0, SCALE)
       IN  /\ rng' = After3(rng)
           /\ other' = [other EXCEPT
                          !.i = @ + 1,
                          !.R_samples =
                              Append(@, borromean_score(H_sample, L_sample, V_sample,
                                                        DefaultConfig).R)]
    /\ UNCHANGED <<apivars, bvars, lorevars, mcvars, pc, op, args, H, L, V, config, R,
                   gate_passed, result, uncertainty, seed, calls, lcalls, scalls>>

\* The second invocation leaves the loop and returns (R = R_mean, line 358).
OtherReturn ==
    /\ other.pc = "mc_loop"
    /\ other.i >= OtherSamples
    /\ other' = [other EXCEPT !.pc = "returned", !.R_mean = Mean(other.R_samples)]
    /\ UNCHANGED <<apivars, bvars, riskvars, mcvars, lorevars, seed, calls, lcalls, scalls>>

NextConcurrent ==
    \/ CalculateRisk \/ McIter \/ CalcReturn
    \/ OtherCalculateRisk \/ OtherMcIter \/ OtherReturn

SpecConcurrent == Init /\ [][NextConcurrent]_vars

\* The generator state after k iterations' draws, starting from s.
RECURSIVE AfterDraws(_, _)
AfterDraws(s, k) == IF k = 0 THEN s ELSE AfterDraws(After3(s), k - 1)

\* C13: the noise an invocation of calculate_risk draws is that of a random
\* source of its own: its k-th iteration sees the k-th triple of the sequence
\* that starts where the invocation started, whatever another invocation in
\* the process draws in between.
C13_OwnRandomSource ==
    op = "calculate_risk" =>
        \A k \in 1 .. Len(branches) :
            branches[k].z = Draw3(AfterDraws(seed, k - 1))

---------------------------------------------------------------------------
(* Direct calls of the three component scorers (SpecScore) *)

\* distance_km: unknown, negative, 0, 0.0001, 0.5, 2, 15 and 100 km.
Distances ==
    {None, <<-10000>>, <<0>>, <<1>>, <<5000>>, <<20000>>, <<150000>>, <<1000000>>}

\* years_ago: unknown, negative, 0, 10, 39, 100 and 1000 years.
YearsAgo ==
    {None, <<-50000>>, <<0>>, <<100000>>, <<390000>>, <<1000000>>, <<10000000>>}

\* uncertainty_years: negative, 0, 5 and 50 years.
Uncertainties == {-50000, 0, 50000, 500000}

\* source_type of calculate_recent_score: left out, cultural or not.
RecentSources == {None, <<"oral_tradition">>, <<"indigenous">>, <<"scientific">>}

\* num_corroborating_sources
Corroborations == {0, 1, 2, 3, 30}

SpatialCall ==
    /\ Len(scalls) < 2
    /\ \E distance_km \in Distances :
         scalls' = Append(scalls,
                          [fn |-> "calculate_spatial_score",
                           args |-> [distance_km |-> distance_km],
                           ret |-> calculate_spatial_score(distance_km)])
    /\ UNCHANGED <<apivars, bvars, riskvars, mcvars, lorevars, seed, calls, lcalls, other>>

RecentCall ==
    /\ Len(scalls) < 2
    /\ \E years_ago \in YearsAgo, uncertainty_years \in Uncertainties,
          source_type \in RecentSources :
         scalls' = Append(scalls,
                          [fn |-> "calculate_recent_score",
                           args |-> [years_ago |-> years_ago,
                                     uncertainty_years |-> uncertainty_years,
                                     source_type |-> source_type],
                           ret |-> calculate_recent_score(years_ago, uncertainty_years,
                                                          source_type)])
    /\ UNCHANGED <<apivars, bvars, riskvars, mcvars, lorevars, seed, calls, lcalls, other>>

CredibilityCall ==
    /\ Len(scalls) < 2
    /\ \E source_type \in SourceTypes, has_author \in BOOLEAN, has_url \in BOOLEAN,
          num_corroborating_sources \in Corroborations :
         scalls' = Append(scalls,
                          [fn |-> "calculate_credibility_score",
                           args |-> [source_type |-> source_type,
                                     has_author |-> has_author,
                                     has_url |-> has_url,
                                     num_corroborating_sources |->
                                         num_corroborating_sources],
                           ret |-> calculate_credibility_score(
                                       source_type, has_author, has_url,
                                       num_corroborating_sources)])
    /\ UNCHANGED <<apivars, bvars, riskvars, mcvars, lorevars, seed, calls, lcalls, other>>

InitScore == RiskIdle /\ LoreIdle /\ rng = 0

NextScore == SpatialCall \/ RecentCall \/ CredibilityCall

SpecScore == InitScore /\ [][NextScore]_vars

CallsOf(fn) == {k \in 1 .. Len(scalls) : scalls[k].fn = fn}

\* Within one unit of the fourth decimal.
Near(x, y) == x - y <= 1 /\ y - x <= 1

\* C15: calculate_spatial_score returns 0.5 for an unknown or negative
\* distance, exactly 1.0 for distance 0, and for d > 0 a value in [0, 1]
\* that is exp(-d / 0.5) to four decimals (0.3679 at 0.5 km, 0.0183 at 2 km);
\* of two known distances d1 <= d2, the farther one never scores higher.
C15_SpatialScore ==
    LET S == CallsOf("calculate_spatial_score")
        d(k) == scalls[k].args.distance_km
        Known(k) == d(k) # None /\ d(k)[1] >= 0
    IN  /\ \A k \in S :
            /\ 0 <= scalls[k].ret /\ scalls[k].ret <= SCALE
            /\ d(k) = None => scalls[k].ret = 5000
            /\ (d(k) # None /\ d(k)[1] < 0) => scalls[k].ret = 5000
            /\ d(k) = <<0>> => scalls[k].ret = SCALE
            /\ d(k) = <<1>> => Near(scalls[k].ret, 9998)
            /\ d(k) = <<5000>> => Near(scalls[k].ret, 3679)
            /\ d(k) = <<20000>> => Near(scalls[k].ret, 183)
            /\ (d(k) # None /\ d(k)[1] >= 150000) => scalls[k].ret = 0
        /\ \A j \in S, k \in S :
            (Known(j) /\ Known(k) /\ d(j)[1] <= d(k)[1])
                => scalls[j].ret >= scalls[k].ret

\* A call at 0.5 km followed by a call at 2 km, the second scoring lower.
C15_Witness ==
    /\ Len(scalls) = 2
    /\ scalls[1].fn = "calculate_spatial_score"
    /\ scalls[2].fn = "calculate_spatial_score"
    /\ scalls[1].args.distance_km = <<5000>>
    /\ scalls[2].args.distance_km = <<20000>>
    /\ scalls[2].ret < scalls[1].ret
    /\ scalls[2].ret > 0

\* The value the recency formula gives a dated event: exp(-years_ago/50),
\* raised to 0.20 + 0.18*exp(-years_ago/200) for a cultural source, times
\* 1/(1 + uncertainty/10) when uncertainty > 0.
PenalizedRecency(y, uncertainty_years, source_type) ==
    LET base == ExpNeg(y \div 50)
        cultural == 2000 + Mul(1800, ExpNeg(y \div 200))
        raised == IF source_type \in {<<"oral_tradition">>, <<"indigenous">>}
                  THEN Max2(base, cultural) ELSE base
    IN  IF uncertainty_years > 0
        THEN (raised * SCALE) \div (SCALE + uncertainty_years \div 10)
        ELSE raised

CorroborationBonus(n) ==
    CASE n = 0 -> 0
      [] n = 1 -> 283
      [] n = 2 -> 487
      [] n = 3 -> 632
      [] OTHER -> 1000

\* C19: calculate_credibility_score returns clip(base + 0.05 if has_author +
\* 0.05 if has_url + bonus, 0, 1), base being the SOURCE_CREDIBILITY entry of
\* the source type and bonus = 0.1 * (1 - exp(-n/3)) for n > 0 corroborating
\* sources; it never exceeds 1.0 (scientific with author, URL and
\* corroboration gives 1.0), and adding an author, a URL or corroborating
\* sources never lowers it.
C19_CredibilityScore ==
    LET S == CallsOf("calculate_credibility_score")
        a(k) == scalls[k].args
        Level(b) == IF b THEN 1 ELSE 0
    IN  /\ \A k \in S :
            LET sum == SOURCE_CREDIBILITY[a(k).source_type]
                         + (IF a(k).has_author THEN 500 ELSE 0)
                         + (IF a(k).has_url THEN 500 ELSE 0)
                         + CorroborationBonus(a(k).num_corroborating_sources)
            IN  /\ 0 <= scalls[k].ret /\ scalls[k].ret <= SCALE
                /\ Near(scalls[k].ret, Clip(sum, 0, SCALE))
                /\ (a(k).source_type = "scientific" /\ a(k).has_author
                      /\ a(k).has_url) => scalls[k].ret = SCALE
                /\ (a(k).source_type = "oral_tradition" /\ ~a(k).has_author
                      /\ ~a(k).has_url /\ a(k).num_corroborating_sources = 0)
                     => scalls[k].ret = 4000
        /\ \A j \in S, k \in S :
            (/\ a(j).source_type = a(k).source_type
             /\ Level(a(j).has_author) <= Level(a(k).has_author)
             /\ Level(a(j).has_url) <= Level(a(k).has_url)
             /\ a(j).num_corroborating_sources <= a(k).num_corroborating_sources)
                => scalls[j].ret <= scalls[k].ret

\* A scientific source with author, URL and three corroborating sources,
\* after the same source without any of them.
C19_Witness ==
    /\ Len(scalls) = 2
    /\ scalls[1].fn = "calculate_credibility_score"
    /\ scalls[2].fn = "calculate_credibility_score"
    /\ scalls[1].args = [source_type |-> "scientific", has_author |-> FALSE,
                         has_url |-> FALSE, num_corroborating_sources |-> 0]
    /\ scalls[2].args = [source_type |-> "scientific", has_author |-> TRUE,
                         has_url |-> TRUE, num_corroborating_sources |-> 3]
    /\ scalls[1].ret = 9000
    /\ scalls[2].ret = SCALE

---------------------------------------------------------------------------
(* What the record's scoring passes to the component scorers (SpecLore) *)

\* C17: for a dated record whose source_type is oral tradition or
\* indigenous, the recent_score that calculate_l_score returns is the
\* recency score with the cultural-memory override, that is
\* calculate_recent_score given the record's source type; a 100-year-old
\* oral tradition with no uncertainty scores strictly above the 0.2 floor.
C17_CulturalMemoryInLScore ==
    (lscore.status = "returned" /\ lore.source_type \in CULTURAL_SOURCES
       /\ lore.years_ago # None) =>
        /\ lscore.recent_score
             = calculate_recent_score(lore.years_ago,
                                      OrZero(lore.event_date_uncertainty_years),
                                      <<lore.source_type>>)
        /\ (lore.years_ago = <<1000000>>
              /\ OrZero(lore.event_date_uncertainty_years) = 0)
             => lscore.recent_score > 2000

\* C18: update_lore_with_scores on a record without years_ago returns the
\* record with recent_score = calculate_recent_score(None, uncertainty), the
\* minimum recent score 0.2; on a record without distance_to_report it
\* returns the record with spatial_score 0.5; neither is an error.
C18_MissingFieldDefaults ==
    (weights = LORE_WEIGHTS /\ lore_ret.status # "none") =>
        /\ lore.years_ago = None =>
             /\ lore_ret.status = "returned"
             /\ lore.recent_score
                  = <<calculate_recent_score(None,
                                             OrZero(lore.event_date_uncertainty_years),
                                             None)>>
             /\ lore.recent_score = <<2000>>
        /\ lore.distance_to_report = None =>
             /\ lore_ret.status = "returned"
             /\ lore.spatial_score = <<5000>>

\* C20: the LoreScore that calculate_l_score returns has l_score = w1 *
\* recent_score + w2 * credibility_score + w3 * spatial_score for the
\* calculator's weights, which are 0.35, 0.40, 0.25 when the constructor got
\* no weights or an empty dict and the given ones otherwise, and weights_used
\* echoes them; the record update_lore_with_scores returns carries the four
\* values of the LoreScore calculate_l_score returns for it.
C20_WeightedSumAndEcho ==
    /\ weights_arg \in {None, <<EmptyWeights>>}
         => weights = [recent |-> 3500, credibility |-> 4000, spatial |-> 2500]
    /\ weights_arg \notin {None, <<EmptyWeights>>} => weights = weights_arg[1]
    /\ lscore.status = "returned" =>
         /\ lscore.l_score
              = (weights.recent * lscore.recent_score
                   + weights.credibility * lscore.credibility_score
                   + weights.spatial * lscore.spatial_score) \div SCALE
         /\ lscore.weights_used
              = [w1 |-> weights.recent, w2 |-> weights.credibility,
                 w3 |-> weights.spatial]
    /\ lore_ret.status = "returned" =>
         LET again == calculate_l_score(weights, lore)
         IN  /\ lscore.status = "returned" /\ again.status = "returned"
             /\ lore.recent_score = <<lscore.recent_score>>
             /\ lore.credibility_score = <<lscore.credibility_score>>
             /\ lore.spatial_score = <<lscore.spatial_score>>
             /\ lore.l_score = <<lscore.l_score>>
             /\ lore.l_score = <<again.l_score>>
             /\ lore.recent_score = <<again.recent_score>>
             /\ lore.credibility_score = <<again.credibility_score>>
             /\ lore.spatial_score = <<again.spatial_score>>

\* A record updated by a calculator constructed with re-weighting weights.
C20_Witness ==
    /\ weights_arg \notin {None, <<EmptyWeights>>}
    /\ weights = [recent |-> 5000, credibility |-> 3000, spatial |-> 2000]
    /\ lore_ret.status = "returned"
    /\ lscore.weights_used = [w1 |-> 5000, w2 |-> 3000, w3 |-> 2000]
    /\ lore.l_score # None /\ lore.l_score[1] > 0
    /\ lore.recent_score # lore.spatial_score

---------------------------------------------------------------------------
(* Frame of update_lore_with_scores (SpecLore) *)

\* The fields of a record that are not scores.
InputFields ==
    {"event_narrative", "place_name", "years_ago", "event_date_uncertainty_years",
     "source_type", "source_author", "source_url", "distance_to_report",
     "confidence_band"}

\* C21: a step of the lore scorer leaves every field of the record other than
\* recent_score, credibility_score, spatial_score and l_score as it was, and
\* leaves the calculator's weights as they were; what update_lore_with_scores
\* returns is the record itself; and updating a record that was already
\* updated leaves its score fields as they are.
C21_UpdateFrame ==
    [][ /\ \A f \in InputFields : lore'[f] = lore[f]
        /\ weights' = weights
        /\ weights_arg' = weights_arg
        /\ lore_ret'.status = "returned" => lore_ret'.value = lore'
        /\ (lore_ret.status = "returned" /\ lore_ret'.status = "returned")
             => lore' = lore
        /\ lore_ret' = lore_ret => lore' = lore ]_vars

\* An updated record that came without years_ago and uncertainty and with an
\* author, a URL and a distance.
C21_Witness ==
    /\ lore_ret.status = "returned"
    /\ lore_ret.value = lore
    /\ lore.years_ago = None
    /\ lore.event_date_uncertainty_years = None
    /\ lore.source_author = <<"Colombian Geological Survey">>
    /\ lore.source_url # None
    /\ lore.distance_to_report = <<20000>>
    /\ lore.recent_score # None /\ lore.l_score # None

---------------------------------------------------------------------------
(* The documented example (Spec) *)

\* slope_deg=35, curvature=-0.5, lith_class=3, rain_exceed=0.8,
\* lore_signal=0.6, exposure=0.75, fragility=0.60
ExampleInputs ==
    [slope_deg |-> 350000, curvature |-> -5000, lith_class |-> 3,
     rain_exceed |-> 8000, lore_signal |-> 6000, exposure |-> 7500,
     fragility |-> 6000]

\* C22: in a calculate_risk call on the documented example with the default
\* config, L is exactly 0.6, V is 0.705, H is above 0.35, and borromean_score
\* of these values passes the gate with R > 0.
C22_ExampleScenario ==
    (op = "calculate_risk" /\ args.inputs = ExampleInputs /\ args.config = None) =>
        /\ L = 6000
        /\ V = 7050
        /\ H > 3500
        /\ config = RiskConfigOf(args.hazard_type)
        /\ borromean_score(H, L, V, config) = [R |-> R, gate_passed |-> gate_passed]
        /\ gate_passed
        /\ R > 0

\* The example, returned without the Monte Carlo stage.
C22_Witness ==
    /\ Returned
    /\ args.inputs = ExampleInputs /\ args.config = None
    /\ ~args.compute_uncertainty
    /\ args.hazard_type = "landslide"
    /\ result.gate_passed /\ result.R_score > 0
    /\ result.L_score = 6000 /\ result.V_score = 7050


---------------------------------------------------------------------------
(* Zero sigmas (SpecMC) *)

\* The samples mc_uncertainty collected are all the value x.
AllEqual(s, x) == \A k \in 1 .. Len(s) : s[k] = x

---------------------------------------------------------------------------
(* Risk tiers (Spec) *)

\* The R calculate_risk classifies: the Monte Carlo mean when uncertainty was
\* asked for, otherwise the deterministic score.
UsedR == IF args.compute_uncertainty THEN uncertainty.R_mean ELSE Exactly(R)

CalcReturned == op = "calculate_risk" /\ pc = "returned"

TierRank(level) ==
    CASE level = "low" -> 0 [] level = "medium" -> 1
      [] level = "high" -> 2 [] level = "severe" -> 3

\* Scores at, just below and just above the cut points, in units of 1 / 30000
TierProbes ==
    {[num |-> n, den |-> 3] : n \in {0, 8999, 9000, 9001, 17999, 18000, 18001,
                                      23999, 24000, 24001, 30000}}

\* C24: risk_level comes from one four-tier table on the R that calculate_risk
\* uses (the Monte Carlo mean with uncertainty, else the deterministic score):
\* severe iff R >= 0.8, high iff 0.6 <= R < 0.8, medium iff 0.3 <= R < 0.6,
\* low iff R < 0.3; every score gets a tier and the tier never falls as R grows.
C24_TierTable ==
    /\ CalcReturned =>
         LET x   == UsedR
             lvl == result.risk_level
         IN  /\ x.den > 0
             /\ lvl \in {"low", "medium", "high", "severe"}
             /\ (lvl = "severe") <=> (x.num >= 8000 * x.den)
             /\ (lvl = "high") <=> (6000 * x.den <= x.num /\ x.num < 8000 * x.den)
             /\ (lvl = "medium") <=> (3000 * x.den <= x.num /\ x.num < 6000 * x.den)
             /\ (lvl = "low") <=> (x.num < 3000 * x.den)
    /\ \A a \in TierProbes :
         /\ (RiskLevel(a) = "severe") <=> (a.num >= 8000 * a.den)
         /\ (RiskLevel(a) = "high") <=> (6000 * a.den <= a.num /\ a.num < 8000 * a.den)
         /\ (RiskLevel(a) = "medium") <=> (3000 * a.den <= a.num /\ a.num < 6000 * a.den)
         /\ (RiskLevel(a) = "low") <=> (a.num < 3000 * a.den)
    /\ \A a, b \in TierProbes :
         a.num <= b.num => TierRank(RiskLevel(a)) <= TierRank(RiskLevel(b))

C24_Witness ==
    /\ CalcReturned
    /\ args.compute_uncertainty
    /\ result.risk_level = "high"
    /\ UsedR.num % UsedR.den # 0


---------------------------------------------------------------------------
(* The mixed score behind an open gate (SpecBorromean) *)

\* C25: when the gate passes, borromean_score returns
\* clip(lambda_mix * H^alpha * L^beta * V^gamma
\*        + (1 - lambda_mix) * kappa_synergy * min(H, L, V), 0, 1);
\* under the default config that value is strictly positive, so there
\* gate_passed is True exactly when the returned R > 0.
C25_MixedScoreBehindGate ==
    \A k \in 1 .. Len(bcalls) :
        LET c       == bcalls[k]
            cfg     == c.config
            product == Mul(Mul(Pow(c.H, cfg.alpha), Pow(c.L, cfg.beta)),
                           Pow(c.V, cfg.gamma))
            synergy == Mul(cfg.kappa_synergy, Min3(c.H, c.L, c.V))
            mixed   == Mul(cfg.lambda_mix, product)
                         + Mul(SCALE - cfg.lambda_mix, synergy)
        IN  /\ c.gate_passed => c.R = Clip(mixed, 0, SCALE)
            /\ cfg = DefaultConfig => (c.gate_passed <=> c.R > 0)

\* A default-config call with an open gate, and one the clip at 1 cuts.
C25_Witness ==
    /\ \E k \in 1 .. Len(bcalls) :
         LET c == bcalls[k]
         IN  c.config = DefaultConfig /\ c.gate_passed /\ c.R > 0 /\ c.R < SCALE
    /\ \E k \in 1 .. Len(bcalls) :
         LET c == bcalls[k]
         IN  /\ c.gate_passed /\ c.R = SCALE
             /\ Mul(c.config.kappa_synergy, Min3(c.H, c.L, c.V)) > SCALE


---------------------------------------------------------------------------
(* The stages of calculate_risk (Spec) *)

EchoedFields == {"hazard_type", "tau_H", "tau_L", "tau_V", "lambda_mix", "kappa_synergy"}

\* C26: calculate_risk computes the factor scores, then borromean_score, then
\* (if asked) mc_uncertainty.  Without uncertainty it reports R_score = the
\* deterministic R rounded to 4 decimals and 0 for R_std, R_p05, R_p95 and the
\* sensitivities; with uncertainty it reports the rounded R_mean of
\* mc_uncertainty run on the nominal H, L, V with the fixed sample count and
\* sigmas 0.05/0.08/0.04.  gate_passed is the gate of the nominal H, L, V in
\* both cases, and the echoed config is the config used.
C26_Stages ==
    CalcReturned =>
        LET inp == args.inputs
            cfg == IF args.config = None THEN RiskConfigOf(args.hazard_type)
                   ELSE args.config[1]
            h   == compute_H(inp.slope_deg, inp.curvature,
                             ((inp.lith_class - 1) * SCALE) \div 4,
                             inp.rain_exceed, args.hazard_type)
            l   == compute_L(inp.lore_signal)
            v   == compute_V(inp.exposure, inp.fragility)
            b   == borromean_score(h, l, v, cfg)
        IN  /\ H = h /\ L = l /\ V = v /\ config = cfg
            /\ R = b.R /\ gate_passed = b.gate_passed
            /\ result.H_score = h /\ result.L_score = l /\ result.V_score = v
            /\ result.gate_passed = Gate(h, l, v, cfg)
            /\ \A f \in EchoedFields : result.config[f] = cfg[f]
            /\ ~args.compute_uncertainty =>
                 /\ result.R_score = b.R
                 /\ result.R_std = 0 /\ result.R_p05 = 0 /\ result.R_p95 = 0
                 /\ result.H_sensitivity = 0 /\ result.L_sensitivity = 0
                 /\ result.V_sensitivity = 0
                 /\ i = 0 /\ R_samples = <<>> /\ branches = <<>>
            /\ args.compute_uncertainty =>
                 /\ n_samples = MaxSamples
                 /\ sigma = DefaultSigma /\ sigma = <<500, 800, 400>>
                 /\ correlation = None
                 /\ Len(R_samples) = n_samples
                 /\ uncertainty \in McOutcomes(R_samples, R_samples_H_only,
                                               R_samples_L_only, R_samples_V_only)
                 /\ \A k \in 1 .. Len(branches) :
                      LET nz == branches[k].noise
                      IN  R_samples[k] =
                            borromean_score(Clip(h + nz[1], 0, SCALE),
                                            Clip(l + nz[2], 0, SCALE),
                                            Clip(v + nz[3], 0, SCALE), cfg).R
                 /\ result.R_score = Round4(uncertainty.R_mean)
                 /\ result.R_std = Round4(uncertainty.R_std)
                 /\ result.R_p05 = Round4(uncertainty.R_p05)
                 /\ result.R_p95 = Round4(uncertainty.R_p95)

\* With uncertainty: the nominal gate is open and reported, though the mean
\* that is reported differs from the nominal score.  Without: the gate is
\* closed and the score 0.
C26_Witness ==
    /\ CalcReturned
    /\ args.compute_uncertainty
    /\ gate_passed /\ result.gate_passed
    /\ result.R_score # R
    /\ Len(branches) = MaxSamples
    /\ args.config # None

C26_WitnessDeterministic ==
    /\ CalcReturned
    /\ ~args.compute_uncertainty
    /\ result.gate_passed /\ result.R_score > 0 /\ result.R_std = 0


---------------------------------------------------------------------------
(* The sampling loop of mc_uncertainty (SpecMC) *)

\* What the loop has collected after its first i iterations: i full samples,
\* and one one-factor sample per list from each of the first n_samples \div 3
\* iterations, made from that iteration's noise on one factor with the other
\* two nominal.
LoopCollected ==
    LET third == Min2(i, n_samples \div 3)
    IN  /\ Len(R_samples) = i /\ Len(branches) = i
        /\ Len(R_samples_H_only) = third
        /\ Len(R_samples_L_only) = third
        /\ Len(R_samples_V_only) = third
        /\ \A k \in 1 .. third :
             LET nz == branches[k].noise
                 Hs == Clip(H + nz[1], 0, SCALE)
                 Ls == Clip(L + nz[2], 0, SCALE)
                 Vs == Clip(V + nz[3], 0, SCALE)
             IN  /\ R_samples[k] = borromean_score(Hs, Ls, Vs, config).R
                 /\ R_samples_H_only[k] = borromean_score(Hs, L, V, config).R
                 /\ R_samples_L_only[k] = borromean_score(H, Ls, V, config).R
                 /\ R_samples_V_only[k] = borromean_score(H, L, Vs, config).R

\* The loop part of C27 alone: the loop stops after exactly n_samples
\* iterations, with what LoopCollected describes.
C27_LoopCounts ==
    op = "mc_uncertainty" =>
        /\ i <= n_samples
        /\ LoopCollected
        /\ McDone => i = n_samples

\* C27: for every n_samples >= 0 mc_uncertainty finishes after exactly
\* n_samples iterations with n_samples full samples and n_samples \div 3
\* samples in each one-factor list, taken from the first n_samples \div 3
\* iterations, and for n_samples < 3 the sensitivities of its result are the
\* fallback 0.33, 0.33, 0.34.
C27_LoopAndFallback ==
    McDone =>
        /\ i = n_samples
        /\ LoopCollected
        /\ n_samples < 3 => (pc = "returned" /\ FallbackSplit(uncertainty))


---------------------------------------------------------------------------
(* api_server.py: POST /api/calculate-risk *)

\* The fields of RiskCalculationRequest the handler reads.  A value is None
\* or <<x>>; numbers are fixed point, lith_class is a whole number.
RequestFields ==
    {"slope_deg", "curvature", "lith_class", "rain_exceed", "lore_signal",
     "exposure", "fragility", "hazard_type", "event_type", "location_lat",
     "location_lng", "date_observed"}

\* The declared defaults, taken by a field the body leaves out.
FieldDefault(f) ==
    CASE f = "lore_signal" -> <<0>>
      [] f = "hazard_type" -> <<"landslide">>
      [] OTHER -> None

\* The model built from a JSON body: a field of the body keeps its value (an
\* explicit null is None), a field left out takes its default.
RiskCalculationRequest(body) ==
    [f \in RequestFields |-> IF f \in DOMAIN body THEN body[f] ELSE FieldDefault(f)]

HTTPException(code, text) == [status_code |-> code, detail |-> text]

RequiredFields == <<"slope_deg", "curvature", "lith_class", "rain_exceed", "exposure", "fragility">>

RequiredDetail(f) ==
    CASE f = "slope_deg" -> "slope_deg is required for H factor"
      [] f = "curvature" -> "curvature is required for H factor"
      [] f = "lith_class" -> "lith_class is required for H factor"
      [] f = "rain_exceed" -> "rain_exceed is required for H factor"
      [] f = "exposure" -> "exposure is required for V factor"
      [] f = "fragility" -> "fragility is required for V factor"

\* The range checks in the order of the handler: field, lower and upper limit
RangeChecks ==
    << [field |-> "slope_deg", lo |-> 0, hi |-> 90 * SCALE],
       [field |-> "lith_class", lo |-> 1, hi |-> 5],
       [field |-> "rain_exceed", lo |-> 0, hi |-> SCALE],
       [field |-> "exposure", lo |-> 0, hi |-> SCALE],
       [field |-> "fragility", lo |-> 0, hi |-> SCALE],
       [field |-> "lore_signal", lo |-> 0, hi |-> SCALE] >>

RangeDetail(f) ==
    CASE f = "slope_deg" -> "slope_deg must be between 0 and 90 degrees"
      [] f = "lith_class" -> "lith_class must be between 1 and 5"
      [] f = "rain_exceed" -> "rain_exceed must be between 0 and 1"
      [] f = "exposure" -> "exposure must be between 0 and 1"
      [] f = "fragility" -> "fragility must be between 0 and 1"
      [] f = "lore_signal" -> "lore_signal must be between 0 and 1"

\* The 'is None' tests from the k-th on: the first that fails raises 400.
RECURSIVE CheckRequired(_, _)
CheckRequired(req, k) ==
    IF k > Len(RequiredFields) THEN None
    ELSE IF req[RequiredFields[k]] = None
         THEN <<HTTPException(400, RequiredDetail(RequiredFields[k]))>>
         ELSE CheckRequired(req, k + 1)

\* The range tests from the k-th on.  'lo <= None' raises TypeError, which the
\* handler's 'except Exception' turns into a 500.
RECURSIVE CheckRanges(_, _)
CheckRanges(req, k) ==
    IF k > Len(RangeChecks) THEN None
    ELSE LET c == RangeChecks[k]
             x == req[c.field]
         IN  IF x = None
             THEN <<HTTPException(500, "Risk calculation failed: TypeError")>>
             ELSE IF ~(c.lo <= x[1] /\ x[1] <= c.hi)
                  THEN <<HTTPException(400, RangeDetail(c.field))>>
                  ELSE CheckRanges(req, k + 1)

\* The validation of the handler: None when the request passes, else <<error>>.
Validate(req) ==
    IF CheckRequired(req, 1) # None THEN CheckRequired(req, 1)
    ELSE CheckRanges(req, 1)

\* request.event_type or request.hazard_type
HazardOf(req) ==
    IF req.event_type # None /\ req.event_type[1] # ""
    THEN req.event_type[1] ELSE req.hazard_type[1]

\* The documented example as a request body
ExampleBody ==
    [slope_deg |-> <<350000>>, curvature |-> <<-5000>>, lith_class |-> <<3>>,
     rain_exceed |-> <<8000>>, lore_signal |-> <<6000>>, exposure |-> <<7500>>,
     fragility |-> <<6000>>]

VariedFields ==
    {"slope_deg", "curvature", "lith_class", "rain_exceed", "lore_signal",
     "exposure", "fragility", "event_type"}

\* Values a body gives a field: null, the ends of the range and their
\* neighbours outside it.
BodyValues(f) ==
    CASE f = "slope_deg" -> {None, <<-1>>, <<0>>, <<350000>>, <<900000>>, <<900001>>}
      [] f = "curvature" -> {None, <<-5000>>}
      [] f = "lith_class" -> {None, <<0>>, <<1>>, <<3>>, <<5>>, <<6>>}
      [] f = "event_type" -> {None, <<"">>, <<"rockfall">>}
      [] OTHER -> {None, <<-1>>, <<0>>, <<6000>>, <<10000>>, <<10001>>}

\* The body b with the field f set to v / with the fields of drop left out
WithField(b, f, v) == [g \in DOMAIN b \cup {f} |-> IF g = f THEN v ELSE b[g]]
WithoutFields(b, drop) == [g \in DOMAIN b \ drop |-> b[g]]

\* Lines 2323-2377: the request is validated; an invalid one is answered at
\* once, a valid one enters calculate_risk with compute_uncertainty=True, up to
\* the entry of mc_uncertainty's loop.
EndpointCall ==
    /\ pc = "idle"
    /\ \E f1 \in VariedFields, f2 \in VariedFields :
       \E v1 \in BodyValues(f1), v2 \in BodyValues(f2), drop \in SUBSET {f1, f2} :
        LET body == WithoutFields(WithField(WithField(ExampleBody, f1, v1), f2, v2), drop)
            req  == RiskCalculationRequest(body)
            err  == Validate(req)
        IN  /\ request' = req
            /\ IF err # None
               THEN /\ response' = err[1]
                    /\ pc' = "responded"
                    /\ UNCHANGED <<args, config, H, L, V, R, gate_passed,
                                   n_samples, sigma, correlation>>
               ELSE LET inp == [slope_deg |-> req.slope_deg[1],
                                curvature |-> req.curvature[1],
                                lith_class |-> req.lith_class[1],
                                rain_exceed |-> req.rain_exceed[1],
                                lore_signal |-> req.lore_signal[1],
                                exposure |-> req.exposure[1],
                                fragility |-> req.fragility[1]]
                        hazard_type == HazardOf(req)
                        cfg == RiskConfigOf(hazard_type)
                        h == compute_H(inp.slope_deg, inp.curvature,
                                       ((inp.lith_class - 1) * SCALE) \div 4,
                                       inp.rain_exceed, hazard_type)
                        l == compute_L(inp.lore_signal)
                        v == compute_V(inp.exposure, inp.fragility)
                        b == borromean_score(h, l, v, cfg)
                    IN  /\ args' = [inputs |-> inp, hazard_type |-> hazard_type,
                                    config |-> None, compute_uncertainty |-> TRUE]
                        /\ config' = cfg
                        /\ H' = h /\ L' = l /\ V' = v
                        /\ R' = b.R /\ gate_passed' = b.gate_passed
                        /\ n_samples' = MaxSamples
                        /\ sigma' = DefaultSigma
                        /\ correlation' = None
                        /\ response' = response
                        /\ pc' = "mc_loop"
    /\ op' = "calculate_risk_endpoint"
    /\ seed' = rng
    /\ UNCHANGED <<calls, lcalls, other, scalls, bvars, lorevars, rng, result, i,
                   R_samples, R_samples_H_only, R_samples_L_only,
                   R_samples_V_only, branches, uncertainty>>

\* mc_uncertainty's return, the rest of calculate_risk and lines 2379-2404:
\* the result gets the location, the date and the event type and is wrapped
\* in the success envelope; an exception becomes a 500.
EndpointReturn ==
    /\ pc = "mc_loop"
    /\ op = "calculate_risk_endpoint"
    /\ i >= n_samples
    /\ \E out \in McOutcomes(R_samples, R_samples_H_only, R_samples_L_only,
                             R_samples_V_only) :
        /\ uncertainty' = out
        /\ result' = IF out.status = "raised" THEN out
                     ELSE ResultDict(H, L, V, out.R_mean, out, gate_passed, config)
        /\ response' =
             IF out.status = "raised"
             THEN HTTPException(500, "Risk calculation failed: IndexError")
             ELSE [status_code |-> 200, success |-> TRUE,
                   message |-> "Risk calculated successfully",
                   data |-> [result |-> ResultDict(H, L, V, out.R_mean, out,
                                                   gate_passed, config),
                             location |-> [latitude |-> request.location_lat,
                                           longitude |-> request.location_lng],
                             date_observed |-> request.date_observed,
                             event_type |-> args.hazard_type]]
        /\ pc' = "responded"
    /\ UNCHANGED <<auxvars, bvars, lorevars, rng, op, args, H, L, V, config, R,
                   gate_passed, n_samples, sigma, correlation, i, R_samples,
                   R_samples_H_only, R_samples_L_only, R_samples_V_only,
                   branches, request>>

NextEndpoint == EndpointCall \/ McIter \/ EndpointReturn

\* The HTTP endpoint in front of calculate_risk
SpecEndpoint == Init /\ [][NextEndpoint]_vars

\* The fields of a request the claim calls invalid: a required field that is
\* missing (None), or a range-checked field that is None or outside its range.
FaultyFields(req) ==
    {RequiredFields[k] : k \in {j \in 1 .. Len(RequiredFields) : req[RequiredFields[j]] = None}}
      \cup {RangeChecks[k].field :
              k \in {j \in 1 .. Len(RangeChecks) :
                       LET c == RangeChecks[j]
                       IN  \/ req[c.field] = None
                           \/ /\ req[c.field] # None
                              /\ ~(c.lo <= req[c.field][1] /\ req[c.field][1] <= c.hi)}}

DetailsNaming(f) ==
    (IF f \in {RequiredFields[k] : k \in 1 .. Len(RequiredFields)}
     THEN {RequiredDetail(f)} ELSE {})
      \cup (IF f \in {RangeChecks[k].field : k \in 1 .. Len(RangeChecks)}
            THEN {RangeDetail(f)} ELSE {})

Responded == op = "calculate_risk_endpoint" /\ pc = "responded"

\* C28: the endpoint validates before it calculates.  A request with a
\* required field missing, or with slope_deg, lith_class, rain_exceed,
\* exposure, fragility or lore_signal outside its range (an explicit null
\* lore_signal included), gets HTTP 400 with a detail naming a faulty field,
\* without calculate_risk being invoked; only valid requests reach
\* calculate_risk.
C28_ValidatesBeforeCalculating ==
    /\ Responded =>
         /\ FaultyFields(request) # {} =>
              /\ response.status_code = 400
              /\ \E f \in FaultyFields(request) : response.detail \in DetailsNaming(f)
              /\ args = None /\ i = 0
         /\ FaultyFields(request) = {} => response.status_code = 200
    /\ (op = "calculate_risk_endpoint" /\ args # None) => FaultyFields(request) = {}

\* What does hold: calculate_risk is reached by the valid requests only, a
\* faulty request is answered without it, with 400 and a detail naming the
\* first faulty field unless the first fault is a null lore_signal, which is
\* answered with 500.
C28_OnlyValidReachCalculateRisk ==
    /\ (op = "calculate_risk_endpoint" /\ args # None) => FaultyFields(request) = {}
    /\ Responded =>
         /\ FaultyFields(request) = {} => (response.status_code = 200 /\ i = n_samples)
         /\ FaultyFields(request) # {} =>
              /\ args = None /\ i = 0
              /\ response.status_code \in {400, 500}
              /\ response.status_code = 500 =>
                   (request.lore_signal = None /\ FaultyFields(request) = {"lore_signal"})
              /\ response.status_code = 400 =>
                   \E f \in FaultyFields(request) : response.detail \in DetailsNaming(f)


---------------------------------------------------------------------------
(* The ceiling of the default configuration (Spec) *)

\* lambda_mix + (1 - lambda_mix) * kappa_synergy of the default config: 0.79
DefaultCeiling ==
    DefaultConfig.lambda_mix + Mul(SCALE - DefaultConfig.lambda_mix, DefaultConfig.kappa_synergy)

\* C29: under the default RiskConfig every R of borromean_score, nominal or
\* sampled, is at most 0.7 + 0.3 * 0.3 = 0.79, so is every Monte Carlo mean,
\* and calculate_risk with the default config never reports "severe".
C29_DefaultNeverSevere ==
    (op = "calculate_risk" /\ args.config = None) =>
        /\ DefaultCeiling = 7900
        /\ R <= DefaultCeiling
        /\ \A k \in 1 .. Len(R_samples) : R_samples[k] <= DefaultCeiling
        /\ pc = "returned" =>
             /\ UsedR.num <= DefaultCeiling * UsedR.den
             /\ result.R_score <= DefaultCeiling
             /\ result.risk_level # "severe"

\* All three factors at 1: the nominal score is the ceiling itself.
C29_Witness ==
    /\ CalcReturned
    /\ args.config = None
    /\ H = SCALE /\ L = SCALE /\ V = SCALE
    /\ R = 7900
    /\ result.risk_level = "high"


---------------------------------------------------------------------------
(* The tier and the reported score (Spec) *)

\* C30: in every result of calculate_risk the reported risk_level agrees
\* with the reported, 4-decimal R_score under the tier table: severe iff
\* R_score >= 0.8, high iff 0.6 <= R_score < 0.8, medium iff 0.3 <= R_score
\* < 0.6, low iff R_score < 0.3, also when the unrounded R lies just below a
\* cut point.
C30_LevelAgreesWithReportedScore ==
    CalcReturned =>
        LET s   == result.R_score
            lvl == result.risk_level
        IN  /\ (lvl = "severe") <=> (s >= 8000)
            /\ (lvl = "high") <=> (6000 <= s /\ s < 8000)
            /\ (lvl = "medium") <=> (3000 <= s /\ s < 6000)
            /\ (lvl = "low") <=> (s < 3000)

=============================================================================
